---- MODULE Spec2Model ----
(***************************************************************************)
(* A model of the parse-it parser runtime: the lexer state and its cursor, *)
(* ParserState and its single-token operations, the code that the parser   *)
(* backend emits for every ParseOp, packrat memoization (memorize) and the  *)
(* seed-and-grow left recursion (left_rec), the generated parse_memo /      *)
(* parse_stream entry points, and the older combinator runtime              *)
(* (combinator.rs, primitive.rs).                                           *)
(***************************************************************************)
EXTENDS Integers, Sequences, FiniteSets, TLC

VARIABLES
    input,      \* the source text of the running parse: a sequence of characters
    grammar,    \* the compiled grammar (one ParserImpl per non-terminal) in use
    state,      \* the ParserState of the running parse (its lexbuf: start, cursor)
    env,        \* the memo tables and the count of parser-body invocations
    hist,       \* what the calls made so far have returned, per start cursor
    last,       \* the last operation: its name, target, pre-state and result
    panicked    \* TRUE once an operation has panicked (the program has aborted)

vars == <<input, grammar, state, env, hist, last, panicked>>

----------------------------------------------------------------------------
(* Bounds of the model.                                                     *)

MaxLen == 3

NL == "\n"

Alphabet == {"a", "b"}

RECURSIVE SeqsUpTo(_, _)
SeqsUpTo(S, n) ==
    IF n = 0 THEN {<<>>}
    ELSE LET shorter == SeqsUpTo(S, n - 1)
         IN  shorter \cup {Append(s, c) : s \in {t \in shorter : Len(t) = n - 1}, c \in S}

\* Every text over the alphabet up to MaxLen characters, and texts with a line feed.
Inputs == SeqsUpTo(Alphabet, MaxLen) \cup {<<NL>>, <<"a", NL>>}

----------------------------------------------------------------------------
(* lexer.rs: Cursor and LexerState.                                         *)

\* struct Cursor { cursor, start }: the derived Ord compares `cursor` first,
\* then `start`.
CursorLe(a, b) ==
    \/ a.cursor < b.cursor
    \/ a.cursor = b.cursor /\ a.start <= b.start

CursorLt(a, b) == CursorLe(a, b) /\ a # b

\* LexerState::new
LexerStateNew == [start |-> 0, cursor |-> 0]

\* LexerState::lexeme: &input[start..cursor]
Lexeme(inp, lb) == SubSeq(inp, lb.start + 1, lb.cursor)

\* LexerState::run with the regex `.` of CharLexer: an anchored search at
\* `cursor`; `.` matches any character but a line feed.  A cursor beyond the
\* end of the input is an invalid search range, which panics.
LexerRun(inp, lb) ==
    IF lb.cursor > Len(inp) THEN [panic |-> TRUE, some |-> FALSE, lb |-> lb]
    ELSE IF lb.cursor < Len(inp) /\ inp[lb.cursor + 1] # NL
         THEN [panic |-> FALSE, some |-> TRUE,
               lb |-> [start |-> lb.cursor, cursor |-> lb.cursor + 1]]
         ELSE [panic |-> FALSE, some |-> FALSE, lb |-> lb]

\* CharLexer::next: the token is the first character of the lexeme.
CharLexerNext(inp, lb) ==
    LET r == LexerRun(inp, lb)
    IN  IF r.some THEN [panic |-> FALSE, some |-> TRUE, tok |-> Lexeme(inp, r.lb)[1], lb |-> r.lb]
        ELSE [panic |-> r.panic, some |-> FALSE, tok |-> "", lb |-> r.lb]

----------------------------------------------------------------------------
(* parser.rs: ParserState.  A result is [st, val, lb, env]: st is "ok",     *)
(* "err" or "panic", val the value (or the error's span), lb the lexbuf of  *)
(* the state the operation ran on, env the memo tables after it.            *)

Ok(v, lb, e) == [st |-> "ok", val |-> v, lb |-> lb, env |-> e]

\* ParserState::error: Error::new(self.lexbuf.span())
Err(lb, e) == [st |-> "err", val |-> [span |-> lb], lb |-> lb, env |-> e]

Panic(lb, e) == [st |-> "panic", val |-> [span |-> lb], lb |-> lb, env |-> e]

\* Values of the parsed results.
VChar(c) == [ch |-> c]
VStr(s) == [str |-> s]
VPair(a, b) == [fst |-> a, snd |-> b]
VList(s) == [items |-> s]
VSome(v) == [some |-> v]
VNone == [none |-> TRUE]
VUnit == [unit |-> TRUE]
VInt(n) == [int |-> n]

\* ParserState::parse_with: self.next().and_then(matches).ok_or_else(|| self.error()).
\* The matcher is the set of tokens it maps to Some(token).
parse_with(inp, accept, lb, e) ==
    LET n == CharLexerNext(inp, lb)
    IN  IF n.panic THEN Panic(lb, e)
        ELSE IF n.some /\ n.tok \in accept THEN Ok(VChar(n.tok), n.lb, e)
        ELSE Err(n.lb, e)

\* ParserState::parse_char
parse_char(inp, c, lb, e) ==
    LET n == CharLexerNext(inp, lb)
    IN  IF n.panic THEN Panic(lb, e)
        ELSE IF ~n.some THEN Err(n.lb, e)
        ELSE LET lexeme == Lexeme(inp, n.lb)
             IN  IF Len(lexeme) = 0 THEN Err(n.lb, e)
                 ELSE IF lexeme[1] = c /\ Len(lexeme) = 1 THEN Ok(VChar(lexeme[1]), n.lb, e)
                 ELSE Err(n.lb, e)

\* ParserState::parse_str
parse_str(inp, literal, lb, e) ==
    LET n == CharLexerNext(inp, lb)
    IN  IF n.panic THEN Panic(lb, e)
        ELSE IF ~n.some THEN Err(n.lb, e)
        ELSE LET lexeme == Lexeme(inp, n.lb)
             IN  IF lexeme = literal THEN Ok(VStr(lexeme), n.lb, e)
                 ELSE Err(n.lb, e)

\* ParserState::fork: a state with a copy of the lexbuf
Fork(lb) == lb

\* ParserState::advance_to_cursor:
\*   assert!(cursor >= self.lexbuf.cursor(), "you cannot rewind");
\*   self.lexbuf.advance_to_cursor(cursor)
advance_to_cursor_unchecked(cursor, lb, e) == Ok(VUnit, cursor, e)

advance_to_cursor(cursor, lb, e) ==
    IF CursorLe(lb, cursor) THEN Ok(VUnit, cursor, e) ELSE Panic(lb, e)

\* ParserState::advance_to: self.advance_to_cursor(other.lexbuf.cursor())
advance_to(other, lb, e) == advance_to_cursor(other, lb, e)

----------------------------------------------------------------------------
(* The semantic actions of the rules (ParseOp::Map's expr), by name.        *)

DigitValue(c) ==
    CASE c = "2" -> 2 [] c = "3" -> 3 [] c = "9" -> 9 [] OTHER -> 0

RECURSIVE DigitsToInt(_)
DigitsToInt(ds) ==
    IF Len(ds) = 0 THEN 0
    ELSE 10 * DigitsToInt(SubSeq(ds, 1, Len(ds) - 1)) + DigitValue(ds[Len(ds)].ch)

ApplyAction(f, v) ==
    CASE f = "self" -> v
      [] f = "sub"  -> VInt(v.fst.int - v.snd.int)
      [] f = "num"  -> VInt(DigitsToInt(v.items))
      [] f = "a"    -> VStr(<<"a">>)
      [] f = "push" -> VStr(Append(v.str, "b"))
      [] OTHER      -> v

----------------------------------------------------------------------------
(* Memo tables (memo.rs: Memo) are maps from a start cursor to              *)
(* (value, end cursor).                                                     *)

EmptyMemo == [k \in {} |-> [value |-> VNone, end |-> LexerStateNew, ends |-> <<>>]]

\* Memo::insert; `ends` is the history of the entry, the ends written at
\* pos one after the other
MemoInsert(m, pos, value, end) ==
    [k \in DOMAIN m \cup {pos} |->
        IF k = pos
        THEN [value |-> value, end |-> end,
              ends |-> IF pos \in DOMAIN m THEN Append(m[pos].ends, end) ELSE <<end>>]
        ELSE m[k]]

\* Memo::get
MemoHas(m, pos) == pos \in DOMAIN m

\* The number of times the parser body wrapped with memo `m` was entered at
\* start cursor `pos` (what a counting wrapper around the body observes).
RunsAt(e, m, pos) == IF pos \in DOMAIN e.runs[m] THEN e.runs[m][pos] ELSE 0

\* One more entry of the body wrapped with memo `m` at start cursor `pos`.
CountRun(e, m, pos) ==
    [e EXCEPT !.runs[m] =
        [k \in DOMAIN @ \cup {pos} |-> IF k = pos THEN RunsAt(e, m, pos) + 1 ELSE @[k]]]

----------------------------------------------------------------------------
(* parser/backend.rs: the code emitted for every ParseOp, run on the state  *)
(* whose lexbuf is `lb`.  G is the compiled grammar: for every non-terminal *)
(* its body (parser) and memo kind (memo).                                  *)

RECURSIVE Eval(_, _, _, _, _)
RECURSIVE RepeatLoop(_, _, _, _, _, _, _)
RECURSIVE ChoiceRun(_, _, _, _, _, _)
RECURSIVE parse_memo(_, _, _, _, _)
RECURSIVE memorize(_, _, _, _, _, _)
RECURSIVE left_rec(_, _, _, _, _, _)
RECURSIVE GrowLoop(_, _, _, _, _, _, _, _)
RECURSIVE Parse(_, _, _, _, _)
RECURSIVE RepeatParseLoop(_, _, _, _, _, _)
RECURSIVE ChoiceParse(_, _, _, _, _, _)
RECURSIVE ChoiceRunSharedFork(_, _, _, _, _, _)

\* The closure |state| self.parse_impl(state, ..): one invocation of the
\* wrapped parser body, recorded in runs.
RunBody(G, inp, m, parser, lb, e) ==
    Eval(G, inp, parser, lb, CountRun(e, m, lb))

\* ParseOp::Map: {parser}.map(|cap| expr)
EvalMap(G, inp, p, lb, e) ==
    LET r == Eval(G, inp, p.parser, lb, e)
    IN  IF r.st = "ok" THEN [r EXCEPT !.val = ApplyAction(p.expr, r.val)] ELSE r

\* ParseOp::Then, ThenIgnore, IgnoreThen:
\*   match {prev} { Ok(v1) => {next}.map(..), Err(e) => Err(e) }
EvalThen(G, inp, p, lb, e) ==
    LET r1 == Eval(G, inp, p.prev, lb, e)
    IN  IF r1.st # "ok" THEN r1
        ELSE LET r2 == Eval(G, inp, p.next, r1.lb, r1.env)
             IN  IF r2.st # "ok" THEN r2
                 ELSE IF p.op = "Then" THEN Ok(VPair(r1.val, r2.val), r2.lb, r2.env)
                 ELSE IF p.op = "ThenIgnore" THEN Ok(r1.val, r2.lb, r2.env)
                 ELSE r2

\* ParseOp::Repeat, the loop:
\*   let fork = &mut state.fork(); let mut results = vec![];
\*   while let Ok(value) = {parser on fork} { state.advance_to(&fork); results.push(value); }
\* A parser that returns Ok and leaves the fork and the memos as they were
\* returns Ok on every later iteration: the loop is never left and results
\* grows until the allocation aborts the process (no return, as a panic).
RepeatLoop(G, inp, parser, outer, fork, e, results) ==
    LET r == Eval(G, inp, parser, fork, e)
    IN  IF r.st = "panic" THEN Panic(outer, r.env)
        ELSE IF r.st = "ok" /\ r.lb = fork /\ r.env = e THEN Panic(outer, r.env)
        ELSE IF r.st = "ok"
        THEN LET a == advance_to(r.lb, outer, r.env)
             IN  IF a.st = "panic" THEN a
                 ELSE RepeatLoop(G, inp, parser, a.lb, r.lb, r.env, Append(results, r.val))
        ELSE Ok(VList(results), outer, r.env)

\* ParseOp::Repeat: Ok(results) when at_least is 0, else
\*   if results.len() >= at_least { Ok(results) } else { Err(state.error()) }
EvalRepeat(G, inp, p, lb, e) ==
    LET r == RepeatLoop(G, inp, p.parser, lb, Fork(lb), e, <<>>)
    IN  IF r.st # "ok" THEN r
        ELSE IF p.at_least = 0 \/ Len(r.val.items) >= p.at_least THEN r
        ELSE Err(r.lb, r.env)

\* ParseOp::Optional: {parser on state}.ok()
EvalOptional(G, inp, p, lb, e) ==
    LET r == Eval(G, inp, p.parser, lb, e)
    IN  IF r.st = "panic" THEN r
        ELSE IF r.st = "ok" THEN Ok(VSome(r.val), r.lb, r.env)
        ELSE Ok(VNone, r.lb, r.env)

\* ParseOp::LookAhead: let fork = &mut state.fork(); {parser on fork}.map(|_| ())
EvalLookAheadCommit(G, inp, p, lb, e) ==
    LET r == Eval(G, inp, p.parser, Fork(lb), e)
    IN  IF r.st = "ok" THEN Ok(VUnit, r.lb, r.env)
        ELSE [r EXCEPT !.lb = lb]

EvalLookAhead(G, inp, p, lb, e) ==
    LET r == Eval(G, inp, p.parser, Fork(lb), e)
    IN  IF r.st = "ok" THEN Ok(VUnit, lb, r.env)
        ELSE [r EXCEPT !.lb = lb]

\* ParseOp::LookAheadNot:
\*   let fork = &mut state.fork();
\*   if let Ok(value) = {parser on fork} { Err(state.error()) } else { Ok(()) }
EvalLookAheadNot(G, inp, p, lb, e) ==
    LET r == Eval(G, inp, p.parser, Fork(lb), e)
    IN  IF r.st = "panic" THEN [r EXCEPT !.lb = lb]
        ELSE IF r.st = "ok" THEN Err(lb, r.env)
        ELSE Ok(VUnit, lb, r.env)

\* ParseOp::Choice with the fork made once and shared by the alternatives.
ChoiceRunSharedFork(G, inp, parsers, i, lb, e) ==
    IF i > Len(parsers) THEN [st |-> "err", val |-> [span |-> lb], lb |-> lb, env |-> e, tried |-> i - 1]
    ELSE LET r == Eval(G, inp, parsers[i], lb, e)
         IN  IF r.st = "panic" THEN [st |-> "panic", val |-> r.val, lb |-> lb, env |-> r.env, tried |-> i]
             ELSE IF r.st = "ok"
             THEN [st |-> "ok", val |-> r.val, lb |-> r.lb, env |-> r.env, tried |-> i]
             ELSE ChoiceRunSharedFork(G, inp, parsers, i + 1, r.lb, r.env)

\* ParseOp::Choice: from alternative i on, each on a new fork of state:
\*   if let Ok(value) = { fork = state.fork(); {parsers[i] on fork} }
\*       { state.advance_to(fork); Ok(value) } else .. { Err(state.error()) }
\* `tried` is the number of alternatives that were run.
ChoiceRun(G, inp, parsers, i, lb, e) ==
    IF i > Len(parsers) THEN [st |-> "err", val |-> [span |-> lb], lb |-> lb, env |-> e, tried |-> i - 1]
    ELSE LET fork == Fork(lb)
             r == Eval(G, inp, parsers[i], fork, e)
         IN  IF r.st = "panic" THEN [st |-> "panic", val |-> r.val, lb |-> lb, env |-> r.env, tried |-> i]
             ELSE IF r.st = "ok"
             THEN LET a == advance_to(r.lb, lb, r.env)
                  IN  [st |-> a.st, val |-> IF a.st = "ok" THEN r.val ELSE a.val,
                       lb |-> a.lb, env |-> r.env, tried |-> i]
             ELSE ChoiceRun(G, inp, parsers, i + 1, lb, r.env)

EvalChoice(G, inp, p, lb, e) ==
    LET r == ChoiceRun(G, inp, p.parsers, 1, lb, e)
    IN  [st |-> r.st, val |-> r.val, lb |-> r.lb, env |-> r.env]

\* Parsing::expand: the block emitted for a ParseOp (with the ops nested in it).
Eval(G, inp, p, lb, e) ==
    CASE p.op = "JustChar" -> parse_char(inp, p.c, lb, e)
      [] p.op = "JustStr" -> parse_str(inp, p.s, lb, e)
      [] p.op = "Pat" -> parse_with(inp, p.accept, lb, e)
      [] p.op = "Call" -> parse_memo(G, inp, p.parser, lb, e)
      [] p.op = "Map" -> EvalMap(G, inp, p, lb, e)
      [] p.op \in {"Then", "ThenIgnore", "IgnoreThen"} -> EvalThen(G, inp, p, lb, e)
      [] p.op = "Repeat" -> EvalRepeat(G, inp, p, lb, e)
      [] p.op = "Optional" -> EvalOptional(G, inp, p, lb, e)
      [] p.op = "LookAhead" -> EvalLookAhead(G, inp, p, lb, e)
      [] p.op = "LookAheadNot" -> EvalLookAheadNot(G, inp, p, lb, e)
      [] p.op = "Choice" -> EvalChoice(G, inp, p, lb, e)

----------------------------------------------------------------------------
(* combinator.rs and primitive.rs: the Parser trait's combinators, run on   *)
(* a ParserState (state.pos() is its cursor, state.next() its next token).  *)

\* primitive.rs, Just::parse:
\*   match state.next() { Some(token) if token.kind == self.value => Ok(self.value),
\*                        _ => Err(Error::new(state.span())) }
JustParse(inp, p, lb, e) ==
    LET n == CharLexerNext(inp, lb)
    IN  IF n.panic THEN Panic(lb, e)
        ELSE IF n.some /\ n.tok = p.c THEN Ok(VChar(p.c), n.lb, e)
        ELSE Err(n.lb, e)

\* combinator.rs, Map::parse
MapParse(G, inp, p, lb, e) ==
    LET r == Parse(G, inp, p.parser, lb, e)
    IN  IF r.st = "ok" THEN [r EXCEPT !.val = ApplyAction(p.expr, r.val)] ELSE r

\* combinator.rs, Then::parse, ThenIgnore::parse, IgnoreThen::parse
ThenParse(G, inp, p, lb, e) ==
    LET r1 == Parse(G, inp, p.prev, lb, e)
    IN  IF r1.st # "ok" THEN r1
        ELSE LET r2 == Parse(G, inp, p.next, r1.lb, r1.env)
             IN  IF r2.st # "ok" THEN r2
                 ELSE IF p.op = "Then" THEN Ok(VPair(r1.val, r2.val), r2.lb, r2.env)
                 ELSE IF p.op = "ThenIgnore" THEN Ok(r1.val, r2.lb, r2.env)
                 ELSE r2

\* combinator.rs, Repeat::parse, the loop:
\*   while let Ok(value) = self.parser.parse(&fork) { values.push(value); count += 1; }
\* The result carries the fork as the loop leaves it.
RepeatParseLoop(G, inp, parser, fork, e, values) ==
    LET r == Parse(G, inp, parser, fork, e)
    IN  IF r.st = "panic" THEN r
        ELSE IF r.st = "ok"
        THEN RepeatParseLoop(G, inp, parser, r.lb, r.env, Append(values, r.val))
        ELSE Ok(VList(values), r.lb, r.env)

\* combinator.rs, Repeat::parse:
\*   if count < self.at_least { return Err(Error { span: state.span() }); }
\*   state.advance_to(&fork); Ok(values)
RepeatParse(G, inp, p, lb, e) ==
    LET r == RepeatParseLoop(G, inp, p.parser, Fork(lb), e, <<>>)
    IN  IF r.st = "panic" THEN [r EXCEPT !.lb = lb]
        ELSE IF Len(r.val.items) < p.at_least THEN Err(lb, r.env)
        ELSE LET a == advance_to(r.lb, lb, r.env)
             IN  IF a.st = "panic" THEN a ELSE Ok(r.val, a.lb, r.env)

\* combinator.rs, OrNot::parse
OrNotParse(G, inp, p, lb, e) ==
    LET r == Parse(G, inp, p.parser, Fork(lb), e)
    IN  IF r.st = "panic" THEN [r EXCEPT !.lb = lb]
        ELSE IF r.st = "ok"
        THEN LET a == advance_to(r.lb, lb, r.env)
             IN  IF a.st = "panic" THEN a ELSE Ok(VSome(r.val), a.lb, r.env)
        ELSE Ok(VNone, lb, r.env)

\* primitive.rs, Choice::parse, from alternative i on:
\*   let fork = state.fork();
\*   if let Ok(value) = self.parsers[i].parse(&fork) { state.advance_to(&fork); return Ok(value); }
\*   .. Err(Error::new(state.span()))
ChoiceParse(G, inp, parsers, i, lb, e) ==
    IF i > Len(parsers) THEN [st |-> "err", val |-> [span |-> lb], lb |-> lb, env |-> e, tried |-> i - 1]
    ELSE LET fork == Fork(lb)
             r == Parse(G, inp, parsers[i], fork, e)
         IN  IF r.st = "panic" THEN [st |-> "panic", val |-> r.val, lb |-> lb, env |-> r.env, tried |-> i]
             ELSE IF r.st = "ok"
             THEN LET a == advance_to(r.lb, lb, r.env)
                  IN  [st |-> a.st, val |-> IF a.st = "ok" THEN r.val ELSE a.val,
                       lb |-> a.lb, env |-> r.env, tried |-> i]
             ELSE ChoiceParse(G, inp, parsers, i + 1, lb, r.env)

RECURSIVE MemorizeParse(_, _, _, _, _, _)
RECURSIVE LeftRecParseLoop(_, _, _, _, _, _, _, _)

\* primitive.rs, LeftRec::parse, the loop, `last` the local of that name:
\*   let end = loop { let fork = state.fork();
\*       let value = self.parser.parse(&fork)?;
\*       let end = fork.pos();
\*       if end <= last { break end; }
\*       last = end; self.memo.borrow_mut().insert(pos, (Some(value), end)); };
\* st is "ok" when the loop is left by break, with the end it breaks with.
LeftRecParseLoop(G, inp, m, parser, pos, lb, e, lastend) ==
    LET r == Parse(G, inp, parser, Fork(lb), CountRun(e, m, Fork(lb)))
    IN  IF r.st # "ok" THEN [st |-> r.st, val |-> r.val, end |-> lastend, env |-> r.env]
        ELSE IF CursorLe(r.lb, lastend)
        THEN [st |-> "ok", val |-> r.val, end |-> r.lb, env |-> r.env]
        ELSE LeftRecParseLoop(G, inp, m, parser, pos, lb,
                              [r.env EXCEPT !.memo[m] = MemoInsert(@, pos, VSome(r.val), r.lb)],
                              r.lb)

\* LeftRec::parse once the loop has returned g: `?` returns the error of
\* the parser; after break, state.advance_to_pos(end) and the value of
\* self.memo.borrow()[&pos]
LeftRecParseEnd(m, pos, lb, g) ==
    IF g.st # "ok" THEN [st |-> g.st, val |-> g.val, lb |-> lb, env |-> g.env]
    ELSE LET a == advance_to_cursor(g.end, lb, g.env)
         IN  IF a.st = "panic" THEN a
             ELSE IF g.env.memo[m][pos].value # VNone
             THEN Ok(g.env.memo[m][pos].value.some, a.lb, g.env)
             ELSE Err(a.lb, g.env)

\* primitive.rs, LeftRec::parse, on the memo named m
LeftRecParse(G, inp, m, parser, lb, e) ==
    IF MemoHas(e.memo[m], lb)
    THEN LET a == advance_to_cursor(e.memo[m][lb].end, lb, e)
         IN  IF a.st = "panic" THEN a
             ELSE IF e.memo[m][lb].value # VNone THEN Ok(e.memo[m][lb].value.some, a.lb, e)
             ELSE Err(a.lb, e)
    ELSE LeftRecParseEnd(m, lb, lb,
             LeftRecParseLoop(G, inp, m, parser, lb, lb,
                              [e EXCEPT !.memo[m] = MemoInsert(@, lb, VNone, lb)], lb))

\* recursive.rs, Recursive::parse: the parser stored in the slot of N, a
\* LeftRec or a Memorize around the body of N
RecursiveParse(G, inp, N, lb, e) ==
    IF G[N].memo = "LeftRec" THEN LeftRecParse(G, inp, N, G[N].parser, lb, e)
    ELSE MemorizeParse(G, inp, N, G[N].parser, lb, e)

\* Parser::parse of a combinator tree.
Parse(G, inp, p, lb, e) ==
    CASE p.op = "JustChar" -> JustParse(inp, p, lb, e)
      [] p.op = "Call" -> RecursiveParse(G, inp, p.parser, lb, e)
      [] p.op = "Map" -> MapParse(G, inp, p, lb, e)
      [] p.op \in {"Then", "ThenIgnore", "IgnoreThen"} -> ThenParse(G, inp, p, lb, e)
      [] p.op = "Repeat" -> RepeatParse(G, inp, p, lb, e)
      [] p.op = "Optional" -> OrNotParse(G, inp, p, lb, e)
      [] p.op = "Choice" ->
            LET r == ChoiceParse(G, inp, p.parsers, 1, lb, e)
            IN  [st |-> r.st, val |-> r.val, lb |-> r.lb, env |-> r.env]

----------------------------------------------------------------------------
(* memo.rs: memorize and left_rec, on the memo named m.                     *)

\* memorize that does not record the result of the body.
memorize_forgets(G, inp, m, parser, lb, e) ==
    LET pos == lb
    IN  IF MemoHas(e.memo[m], pos)
        THEN LET hit == e.memo[m][pos]
                 a == advance_to_cursor(hit.end, lb, e)
             IN  IF a.st = "panic" THEN a ELSE Ok(hit.value, a.lb, e)
        ELSE LET r == RunBody(G, inp, m, parser, lb, e)
             IN  IF r.st # "ok" THEN r
                 ELSE Ok(r.val, r.lb, r.env)

\* memorize
memorize(G, inp, m, parser, lb, e) ==
    LET pos == lb
    IN  IF MemoHas(e.memo[m], pos)
        THEN LET hit == e.memo[m][pos]
                 a == advance_to_cursor(hit.end, lb, e)
             IN  IF a.st = "panic" THEN a ELSE Ok(hit.value, a.lb, e)
        ELSE LET r == RunBody(G, inp, m, parser, lb, e)
             IN  IF r.st # "ok" THEN r
                 ELSE Ok(r.val, r.lb,
                         [r.env EXCEPT !.memo[m] = MemoInsert(@, pos, r.val, r.lb)])

\* The loop of left_rec that records the match of an iteration before it
\* compares its end with last.1.
RECURSIVE GrowLoopRecordsFirst(_, _, _, _, _, _, _, _)
GrowLoopRecordsFirst(G, inp, m, parser, pos, lb, e, lastv) ==
    LET r == RunBody(G, inp, m, parser, Fork(lb), e)
    IN  IF r.st = "panic" THEN Panic(lb, r.env)
        ELSE IF r.st # "ok" THEN [last |-> lastv, env |-> r.env, st |-> "ok"]
        ELSE IF CursorLe(r.lb, lastv.end)
        THEN [last |-> lastv,
              env |-> [r.env EXCEPT !.memo[m] = MemoInsert(@, pos, VSome(r.val), r.lb)],
              st |-> "ok"]
        ELSE GrowLoopRecordsFirst(G, inp, m, parser, pos, lb,
                                  [r.env EXCEPT !.memo[m] = MemoInsert(@, pos, VSome(r.val), r.lb)],
                                  [value |-> VSome(r.val), end |-> r.lb])

\* The loop of left_rec left after the first match of the body.
GrowLoopOnce(G, inp, m, parser, pos, lb, e, lastv) ==
    LET fork == Fork(lb)
        r == RunBody(G, inp, m, parser, fork, e)
    IN  IF r.st = "panic" THEN Panic(lb, r.env)
        ELSE IF r.st # "ok" THEN [last |-> lastv, env |-> r.env, st |-> "ok"]
        ELSE IF CursorLe(r.lb, lastv.end) THEN [last |-> lastv, env |-> r.env, st |-> "ok"]
        ELSE [last |-> [value |-> VSome(r.val), end |-> r.lb],
              env |-> [r.env EXCEPT !.memo[m] = MemoInsert(@, pos, VSome(r.val), r.lb)],
              st |-> "ok"]

\* The loop of left_rec: `last` is (value, end), state stays at pos until
\* the loop is left.
GrowLoop(G, inp, m, parser, pos, lb, e, lastv) ==
    LET fork == Fork(lb)
        r == RunBody(G, inp, m, parser, fork, e)
    IN  IF r.st = "panic" THEN Panic(lb, r.env)
        ELSE IF r.st # "ok" THEN [last |-> lastv, env |-> r.env, st |-> "ok"]
        ELSE LET end == r.lb
             IN  IF CursorLe(end, lastv.end) THEN [last |-> lastv, env |-> r.env, st |-> "ok"]
                 ELSE LET newlast == [value |-> VSome(r.val), end |-> end]
                      IN  GrowLoop(G, inp, m, parser, pos, lb,
                                   [r.env EXCEPT !.memo[m] = MemoInsert(@, pos, newlast.value, newlast.end)],
                                   newlast)

\* left_rec
left_rec(G, inp, m, parser, lb, e) ==
    LET pos == lb
    IN  IF MemoHas(e.memo[m], pos)
        THEN LET hit == e.memo[m][pos]
                 a == advance_to_cursor(hit.end, lb, e)
             IN  IF a.st = "panic" THEN a
                 ELSE IF hit.value # VNone THEN Ok(hit.value.some, a.lb, e)
                 ELSE Err(a.lb, e)
        ELSE LET seeded == [e EXCEPT !.memo[m] = MemoInsert(@, pos, VNone, pos)]
                 g == GrowLoop(G, inp, m, parser, pos, lb, seeded, [value |-> VNone, end |-> pos])
             IN  IF g.st = "panic" THEN g
                 ELSE LET a == advance_to_cursor(g.last.end, lb, g.env)
                      IN  IF a.st = "panic" THEN a
                          ELSE IF g.last.value # VNone THEN Ok(g.last.value.some, a.lb, g.env)
                          ELSE Err(a.lb, g.env)

\* The generated parse_memo of a non-terminal: memo_func by MemoKind.
parse_memo(G, inp, N, lb, e) ==
    CASE G[N].memo = "Memorize" -> memorize(G, inp, N, G[N].parser, lb, e)
      [] G[N].memo = "LeftRec" -> left_rec(G, inp, N, G[N].parser, lb, e)
      [] OTHER -> RunBody(G, inp, N, G[N].parser, lb, e)

----------------------------------------------------------------------------
(* Specification Spec: one ParserState over a chosen input, and every      *)
(* operation of ParserState and every ParseOp run on it.                    *)

Names == {"A", "B", "M", "P", "Expr", "Num", "Digit"}

EnvNew == [memo |-> [n \in Names |-> EmptyMemo], runs |-> [n \in Names |-> <<>>]]

\* No call made yet: `calls` counts the calls, `first` maps a start cursor to
\* the first successful call made there.
HistNew == [calls |-> 0, first |-> <<>>]

NoGrammar == [n \in {} |-> [parser |-> [op |-> "JustChar", c |-> "a"], memo |-> "None"]]

NoOp == [op |-> "new", impl |-> "state", arg |-> VUnit, pre |-> LexerStateNew,
         st |-> "ok", val |-> VUnit, tried |-> 0]

JustChar(c) == [op |-> "JustChar", c |-> c]
JustStr(s) == [op |-> "JustStr", s |-> s]
Pat(accept) == [op |-> "Pat", accept |-> accept]
Call(n) == [op |-> "Call", parser |-> n]
Map(p, f) == [op |-> "Map", parser |-> p, expr |-> f]
Then(p, q) == [op |-> "Then", prev |-> p, next |-> q]
ThenIgnore(p, q) == [op |-> "ThenIgnore", prev |-> p, next |-> q]
IgnoreThen(p, q) == [op |-> "IgnoreThen", prev |-> p, next |-> q]
Repeat(p, n) == [op |-> "Repeat", parser |-> p, at_least |-> n]
Optional(p) == [op |-> "Optional", parser |-> p]
LookAhead(p) == [op |-> "LookAhead", parser |-> p]
LookAheadNot(p) == [op |-> "LookAheadNot", parser |-> p]
Choice(ps) == [op |-> "Choice", parsers |-> ps]

\* The bodies and the composite ParseOps that are run.
Leaves == {JustChar("a"), JustChar("b"), Pat({"a", "b"})}

Bodies == Leaves \cup {Then(JustChar("a"), JustChar("b")), Then(JustChar("b"), JustChar("a"))}

\* The bodies built from Just alone (the combinators have no pattern parser).
JustBodies == {p \in Bodies : p.op # "Pat"}

Alternatives ==
    {<<JustChar("a"), JustChar("b")>>,
     <<Then(JustChar("a"), JustChar("b")), JustChar("a")>>,
     <<JustChar("a"), Then(JustChar("a"), JustChar("b"))>>,
     <<JustChar("b"), Then(JustChar("a"), JustChar("b"))>>,
     <<JustChar("b"), Then(JustChar("b"), JustChar("a")), Then(JustChar("a"), JustChar("b"))>>}

Literals == {<<"a">>, <<"a", "b">>}

Matchers == {{"a"}, {"a", "b"}}

\* The cursors a ParserState over inp can hand out.
CursorsOf(inp) == {c \in [start : 0..Len(inp), cursor : 0..Len(inp)] : c.start <= c.cursor}

\* The cursors of the forks of a ParserState<CharLexer> over inp.
ForkCursorsOf(inp) == {c \in CursorsOf(inp) : c.cursor = 0 \/ c.start = c.cursor - 1}

Init ==
    /\ input \in Inputs
    /\ grammar = NoGrammar
    /\ state = LexerStateNew
    /\ env = EnvNew
    /\ hist = HistNew
    /\ last = NoOp
    /\ panicked = FALSE

\* The common effect of running an operation with result r on state.
Record(name, impl, arg, r, tried) ==
    /\ state' = r.lb
    /\ env' = r.env
    /\ panicked' = (r.st = "panic")
    /\ last' = [op |-> name, impl |-> impl, arg |-> arg, pre |-> state,
                st |-> r.st, val |-> r.val, tried |-> tried]
    /\ UNCHANGED <<input, grammar, hist>>

ParseChar(c) ==
    /\ ~panicked
    /\ Record("parse_char", "state", VChar(c), parse_char(input, c, state, env), 0)

ParseStr(s) ==
    /\ ~panicked
    /\ Record("parse_str", "state", VStr(s), parse_str(input, s, state, env), 0)

ParseWith(accept) ==
    /\ ~panicked
    /\ Record("parse_with", "state", VUnit, parse_with(input, accept, state, env), 0)

\* state.advance_to(&other), other a ParserState whose cursor is c
AdvanceTo(c) ==
    /\ ~panicked
    /\ Record("advance_to", "state", c, advance_to(c, state, env), 0)

\* state.advance_to_cursor(c)
AdvanceToCursor(c) ==
    /\ ~panicked
    /\ Record("advance_to_cursor", "state", c, advance_to_cursor(c, state, env), 0)

\* The block the backend emits for a Then, Repeat, Optional, LookAhead or
\* LookAheadNot op, run on state.
RunOp(p) ==
    /\ ~panicked
    /\ Record(p.op, "backend", p, Eval(grammar, input, p, state, env), 0)

\* The block the backend emits for a Choice op, run on state.
RunChoice(ps) ==
    /\ ~panicked
    /\ LET r == ChoiceRun(grammar, input, ps, 1, state, env)
       IN  Record("Choice", "backend", Choice(ps),
                  [st |-> r.st, val |-> r.val, lb |-> r.lb, env |-> r.env], r.tried)

\* A Then, Repeat or OrNot combinator's parse, on state.
RunCombinator(p) ==
    /\ ~panicked
    /\ Record(p.op, "combinator", p, Parse(grammar, input, p, state, env), 0)

\* A primitive.rs Choice's parse, on state.
RunChoiceCombinator(ps) ==
    /\ ~panicked
    /\ LET r == ChoiceParse(grammar, input, ps, 1, state, env)
       IN  Record("Choice", "combinator", Choice(ps),
                  [st |-> r.st, val |-> r.val, lb |-> r.lb, env |-> r.env], r.tried)

Next ==
    \/ \E c \in Alphabet : ParseChar(c)
    \/ \E s \in Literals : ParseStr(s)
    \/ \E m \in Matchers : ParseWith(m)
    \/ \E c \in ForkCursorsOf(input) : AdvanceTo(c)
    \/ \E c \in CursorsOf(input) : AdvanceToCursor(c)
    \/ \E p \in Bodies : RunOp(p)
    \/ \E p \in Bodies, n \in {0, 1} : RunOp(Repeat(p, n))
    \/ \E p \in Bodies : RunOp(Optional(p))
    \/ \E p \in Bodies : RunOp(LookAhead(p))
    \/ \E p \in Bodies : RunOp(LookAheadNot(p))
    \/ \E ps \in Alternatives : RunChoice(ps)
    \/ \E p \in JustBodies, n \in {0, 1} : RunCombinator(Repeat(p, n))
    \/ \E p \in JustBodies : RunCombinator(Optional(p))
    \/ \E ps \in Alternatives : RunChoiceCombinator(ps)

Spec == Init /\ [][Next]_vars

----------------------------------------------------------------------------
(* Specification SpecMemo: a sequence of memorize calls that share the one  *)
(* memo "M", each on a fork of the state at some cursor, each with its own   *)
(* wrapped parser.                                                          *)

MaxCalls == 3

\* primitive.rs, Memorize::parse: the same steps over self.parser.parse.
MemorizeParse(G, inp, m, parser, lb, e) ==
    LET pos == lb
    IN  IF MemoHas(e.memo[m], pos)
        THEN LET hit == e.memo[m][pos]
                 a == advance_to_cursor(hit.end, lb, e)
             IN  IF a.st = "panic" THEN a ELSE Ok(hit.value, a.lb, e)
        ELSE LET r == Parse(G, inp, parser, lb, CountRun(e, m, lb))
             IN  IF r.st # "ok" THEN r
                 ELSE Ok(r.val, r.lb,
                         [r.env EXCEPT !.memo[m] = MemoInsert(@, pos, r.val, r.lb)])

\* The parsers wrapped by the calls.
MemoBodies == {JustChar("a"), JustChar("b"), Then(JustChar("a"), JustChar("b"))}

\* let fork = outer.fork(), outer a state that stands at cursor c
ForkAt(c) ==
    /\ ~panicked
    /\ state' = Fork(c)
    /\ last' = [op |-> "fork", impl |-> "state", arg |-> c, pre |-> state,
                st |-> "ok", val |-> VUnit, tried |-> 0]
    /\ UNCHANGED <<input, grammar, env, hist, panicked>>

\* The effect of a memorize call with result r: last.tried is the number of
\* times the call entered the wrapped parser.
RecordCall(impl, p, r) ==
    /\ state' = r.lb
    /\ env' = r.env
    /\ panicked' = (r.st = "panic")
    /\ last' = [op |-> "memorize", impl |-> impl, arg |-> p, pre |-> state,
                st |-> r.st, val |-> r.val,
                tried |-> RunsAt(r.env, "M", state) - RunsAt(env, "M", state)]
    /\ hist' = [calls |-> hist.calls + 1,
                first |-> IF r.st = "ok" /\ state \notin DOMAIN hist.first
                          THEN [k \in DOMAIN hist.first \cup {state} |->
                                  IF k = state
                                  THEN [value |-> r.val, end |-> r.lb, body |-> p,
                                        call |-> hist.calls + 1]
                                  ELSE hist.first[k]]
                          ELSE hist.first]
    /\ UNCHANGED <<input, grammar>>

\* memorize(state, &memo, |state| p)
Memorize(p) ==
    /\ ~panicked
    /\ hist.calls < MaxCalls
    /\ RecordCall("backend", p, memorize(grammar, input, "M", p, state, env))

\* Memorize { memo, parser: p }.parse(state)
MemorizeCombinator(p) ==
    /\ ~panicked
    /\ hist.calls < MaxCalls
    /\ RecordCall("combinator", p, MemorizeParse(grammar, input, "M", p, state, env))

NextMemo ==
    \/ \E c \in ForkCursorsOf(input) : ForkAt(c)
    \/ \E p \in MemoBodies : Memorize(p)
    \/ \E p \in MemoBodies : MemorizeCombinator(p)

SpecMemo == Init /\ [][NextMemo]_vars

----------------------------------------------------------------------------
(* Specification SpecParse: the parsers generated for a grammar, one object *)
(* per non-terminal, and two parses run one after the other with the same   *)
(* entry parser object.                                                     *)

\* Parser::compile: the body of a non-terminal is the Choice of its rules,
\* each rule its production mapped by its action; the memo kind is LeftRec
\* for the non-terminals of ctx.left_recursion and Memorize for the others.
Rule(production, action) == Map(production, action)

\* The doc test of left_rec:  P -> P 'b' | 'a'
GrammarP ==
    [n \in {"P"} |->
        [parser |-> Choice(<<Rule(ThenIgnore(Call("P"), JustChar("b")), "push"),
                             Rule(JustChar("a"), "a")>>),
         memo |-> "LeftRec"]]

\* Digit -> '0'..'9';  Num -> Digit+;  Expr -> Expr '-' Num | Num
GrammarExpr ==
    [n \in {"Expr", "Num", "Digit"} |->
        CASE n = "Expr" ->
               [parser |-> Choice(<<Rule(Then(ThenIgnore(Call("Expr"), JustChar("-")), Call("Num")), "sub"),
                                    Rule(Call("Num"), "self")>>),
                memo |-> "LeftRec"]
          [] n = "Num" ->
               [parser |-> Choice(<<Rule(Repeat(Call("Digit"), 1), "num")>>),
                memo |-> "Memorize"]
          [] n = "Digit" ->
               [parser |-> Choice(<<Rule(Pat({"2", "3", "9"}), "self")>>),
                memo |-> "Memorize"]]

\* A -> A 'x' | B | 'a';  B -> A 'y'.  analyze_left_recursion marks A alone:
\* once A is in ctx.left_recursion the walk from B skips its only left call.
GrammarAB ==
    [n \in {"A", "B"} |->
        CASE n = "A" ->
               [parser |-> Choice(<<Rule(ThenIgnore(Call("A"), JustChar("x")), "self"),
                                    Rule(Call("B"), "self"),
                                    Rule(JustChar("a"), "self")>>),
                memo |-> "LeftRec"]
          [] n = "B" ->
               [parser |-> Choice(<<Rule(ThenIgnore(Call("A"), JustChar("y")), "self")>>),
                memo |-> "Memorize"]]

Grammars == {GrammarP, GrammarExpr, GrammarAB}

\* The input of scenario S1: "9-3-2".
InputS1 == <<"9", "-", "3", "-", "2">>

\* The inputs parsed with a grammar.
InputsOf(G) ==
    IF G = GrammarP THEN SeqsUpTo({"a", "b"}, MaxLen)
    ELSE IF G = GrammarExpr THEN SeqsUpTo({"9", "3", "-"}, MaxLen) \cup {InputS1}
    ELSE SeqsUpTo({"a", "x", "y"}, MaxLen)

InitParse ==
    /\ grammar \in Grammars
    /\ input \in InputsOf(grammar)
    /\ state = LexerStateNew
    /\ env = EnvNew
    /\ hist = HistNew
    /\ last = NoOp
    /\ panicked = FALSE

\* parse_stream of the parser object of N: `let d = &Ty::default();` makes
\* every dependency anew, self (with its memo field) is the object itself.
\* `let result = self.parse_memo(state, ..)` is the call a ParseOp::Call of N emits.
parse_stream(G, inp, N, lb, e) ==
    Eval(G, inp, Call(N), lb,
         [memo |-> [n \in Names |-> IF n = N THEN e.memo[n] ELSE EmptyMemo],
          runs |-> EnvNew.runs])

\* The effect of a parse of inp with the parser object of N, on a new
\* ParserState over inp.
RecordParse(N, inp) ==
    LET r == parse_stream(grammar, inp, N, LexerStateNew, env)
    IN  /\ input' = inp
        /\ state' = r.lb
        /\ env' = r.env
        /\ panicked' = (r.st = "panic")
        /\ last' = [op |-> "parse_stream", impl |-> "backend", arg |-> N,
                    pre |-> LexerStateNew, st |-> r.st, val |-> r.val, tried |-> 0]
        /\ hist' = [hist EXCEPT !.calls = @ + 1]
        /\ UNCHANGED grammar

\* let parser = N::default(); parser.parse_stream(&mut ParserState::new(input))
ParseStream(N) ==
    /\ hist.calls = 0
    /\ RecordParse(N, input)

\* parser.parse_stream(&mut ParserState::new(inp)), parser the same object
ParseAgain(inp) ==
    /\ hist.calls = 1
    /\ ~panicked
    /\ RecordParse(last.arg, inp)

NextParse ==
    \/ \E N \in DOMAIN grammar : ParseStream(N)
    \/ \E inp \in InputsOf(grammar) : ParseAgain(inp)

SpecParse == InitParse /\ [][NextParse]_vars

----------------------------------------------------------------------------
(* Properties of ParserState and of the ParseOps (specification Spec).      *)

\* C1: over every sequence of operations on a ParserState its cursor never
\* decreases, and advance_to / advance_to_cursor called with a cursor before
\* the current one panics and leaves the state where it was.
C1_CursorNeverDecreases ==
    /\ CursorLe(last.pre, state)
    /\ (last.op \in {"advance_to", "advance_to_cursor"} /\ CursorLt(last.arg, last.pre))
          => (panicked /\ state = last.pre)

\* An advance_to_cursor to an earlier cursor was attempted and panicked.
C1_RewindPanics ==
    /\ panicked
    /\ last.op = "advance_to_cursor"
    /\ CursorLt(last.arg, last.pre)
    /\ last.pre.cursor > 0

\* C2: after a failed operation (a single-token match or a composite
\* ParseOp) the cursor of the state it ran on is the cursor before it.
C2_FailedOpKeepsCursor ==
    (last.impl \in {"state", "backend"} /\ last.st = "err") => state = last.pre

\* The result of one alternative or body, run on a new fork at lb.
OnFork(impl, p, lb) ==
    IF impl = "backend" THEN Eval(grammar, input, p, Fork(lb), env)
    ELSE Parse(grammar, input, p, Fork(lb), env)

\* The index of the first alternative that succeeds on a fork at lb, or 0.
FirstOk(impl, ps, lb) ==
    LET oks == {i \in 1..Len(ps) : OnFork(impl, ps[i], lb).st = "ok"}
    IN  IF oks = {} THEN 0 ELSE CHOOSE i \in oks : \A j \in oks : i <= j

\* C8: Choice runs its alternatives in order, each on a new fork of the
\* state; it commits the first that succeeds, returns its value and runs no
\* later one; when all fail it fails and the state's cursor is unchanged.
C8_ChoiceCommitsFirstSuccess ==
    last.op = "Choice" =>
        LET ps == last.arg.parsers
            k == FirstOk(last.impl, ps, last.pre)
        IN  IF k = 0
            THEN last.st = "err" /\ state = last.pre /\ last.tried = Len(ps)
            ELSE /\ last.st = "ok"
                 /\ last.val = OnFork(last.impl, ps[k], last.pre).val
                 /\ state = OnFork(last.impl, ps[k], last.pre).lb
                 /\ last.tried = k

\* S5 on "a": the first alternative 'a' 'b' failed after its 'a', the second
\* alternative 'a' was committed.
C8_SecondAlternativeCommitted ==
    /\ last.op = "Choice" /\ last.impl = "backend"
    /\ input = <<"a">>
    /\ last.arg.parsers = <<Then(JustChar("a"), JustChar("b")), JustChar("a")>>
    /\ last.st = "ok" /\ last.tried = 2
    /\ last.pre.cursor = 0 /\ state.cursor = 1

\* C9: LookAhead and LookAheadNot leave the state's cursor unchanged,
\* LookAhead succeeds exactly when its body succeeds on a fork and
\* LookAheadNot exactly when it fails.
C9_LookAheadKeepsCursor ==
    last.op \in {"LookAhead", "LookAheadNot"} =>
        LET b == OnFork("backend", last.arg.parser, last.pre).st
        IN  /\ state = last.pre
            /\ last.op = "LookAhead" => (last.st = "ok" <=> b = "ok")
            /\ last.op = "LookAheadNot" => (last.st = "ok" <=> b = "err")

\* A LookAhead whose two-token body matched.
C9_LookAheadMatched ==
    /\ last.op = "LookAhead"
    /\ last.arg.parser = Then(JustChar("a"), JustChar("b"))
    /\ last.st = "ok"
    /\ state = last.pre

\* The results of the consecutive successful matches of body from lb on.
RECURSIVE MatchRun(_, _, _)
MatchRun(impl, body, lb) ==
    LET r == OnFork(impl, body, lb)
    IN  IF r.st = "ok" THEN <<r>> \o MatchRun(impl, body, r.lb) ELSE <<>>

\* C10: Repeat(body, n) returns the values of the maximal run of successful
\* body matches, leaves the state at the end of the last successful match,
\* and fails exactly when fewer than n matches succeeded.
C10_RepeatMaximalRun ==
    last.op = "Repeat" =>
        LET run == MatchRun(last.impl, last.arg.parser, last.pre)
            end == IF Len(run) = 0 THEN last.pre ELSE run[Len(run)].lb
        IN  /\ last.st = "err" <=> Len(run) < last.arg.at_least
            /\ last.st = "ok" =>
                  /\ last.val = VList([i \in 1..Len(run) |-> run[i].val])
                  /\ state = end

\* C10 for the block the backend emits alone.
C10_BackendRepeatMaximalRun ==
    last.impl = "backend" => C10_RepeatMaximalRun

\* C11: Optional(body) always succeeds; when the body (tried on a fork of
\* the state before) fails, the state is left where it was and the value is
\* None; when the body succeeds, the state is at the body's end and the
\* value is Some of the body's value.
C11_OptionalKeepsCursorOnNone ==
    last.op = "Optional" =>
        LET b == OnFork(last.impl, last.arg.parser, last.pre)
        IN  /\ last.st = "ok"
            /\ b.st = "err" => (state = last.pre /\ last.val = VNone)
            /\ b.st = "ok" => (state = b.lb /\ last.val = VSome(b.val))

\* C11 for the OrNot combinator alone, which tries its body on a fork.
C11_OrNotKeepsCursorOnNone ==
    last.impl = "combinator" => C11_OptionalKeepsCursorOnNone

----------------------------------------------------------------------------
(* Properties of memorize (specification SpecMemo).                         *)

\* C3: with one memo, once a memorize call at start cursor p has succeeded
\* with value v and left the state at e, every later call at p returns v,
\* leaves the state at e, and does not enter the wrapped parser.
C3_MemoHitReturnsFirstResult ==
    (/\ last.op = "memorize"
     /\ last.pre \in DOMAIN hist.first
     /\ hist.first[last.pre].call < hist.calls)
        => /\ last.st = "ok"
           /\ last.val = hist.first[last.pre].value
           /\ state = hist.first[last.pre].end
           /\ last.tried = 0

\* A later call at a cursor with a recorded success, wrapping a parser that
\* fails there, returned the recorded result.
C3_LaterCallHitsMemo ==
    /\ last.op = "memorize"
    /\ last.pre \in DOMAIN hist.first
    /\ hist.first[last.pre].call < hist.calls
    /\ last.arg # hist.first[last.pre].body
    /\ OnFork(last.impl, last.arg, last.pre).st = "err"
    /\ last.st = "ok"
    /\ state # last.pre

\* C4: over any sequence of memorize calls that share one memo the wrapped
\* parser is entered at most once for each start cursor, whether it succeeds
\* or fails there.
C4_BodyRunsOncePerCursor ==
    \A p \in DOMAIN env.runs["M"] : env.runs["M"][p] <= 1

----------------------------------------------------------------------------
(* Properties of the generated parsers (specification SpecParse).           *)

\* The positions where a match of p that starts at position i of inp can
\* end, T[N][i] being the ends known so far of the matches of non-terminal N
\* (for the ops the grammars above are made of).
RECURSIVE EndsOf(_, _, _, _)
RECURSIVE RepeatEnds(_, _, _, _)
RepeatEnds(inp, body, S, T) ==
    LET more == S \cup UNION {EndsOf(inp, body, j, T) : j \in S}
    IN  IF more = S THEN S ELSE RepeatEnds(inp, body, more, T)

EndsOf(inp, p, i, T) ==
    CASE p.op = "JustChar" -> IF i < Len(inp) /\ inp[i + 1] = p.c THEN {i + 1} ELSE {}
      [] p.op = "Pat" -> IF i < Len(inp) /\ inp[i + 1] \in p.accept THEN {i + 1} ELSE {}
      [] p.op = "Call" -> T[p.parser][i]
      [] p.op = "Map" -> EndsOf(inp, p.parser, i, T)
      [] p.op \in {"Then", "ThenIgnore", "IgnoreThen"} ->
            UNION {EndsOf(inp, p.next, j, T) : j \in EndsOf(inp, p.prev, i, T)}
      [] p.op = "Choice" ->
            UNION {EndsOf(inp, p.parsers[k], i, T) : k \in 1..Len(p.parsers)}
      [] p.op = "Repeat" ->
            RepeatEnds(inp, p.parser,
                       IF p.at_least = 0 THEN {i} ELSE EndsOf(inp, p.parser, i, T), T)

\* The least table closed under the rules of G.
RECURSIVE MatchTable(_, _, _)
MatchTable(G, inp, T) ==
    LET more == [N \in DOMAIN G |-> [i \in 0..Len(inp) |-> EndsOf(inp, G[N].parser, i, T)]]
    IN  IF more = T THEN T ELSE MatchTable(G, inp, more)

\* The lengths of the prefixes of inp that N matches.
MatchEnds(G, inp, N) ==
    MatchTable(G, inp, [M \in DOMAIN G |-> [i \in 0..Len(inp) |-> {}]])[N][0]

\* C5: a parse, with fresh memos, of a non-terminal N of the LeftRec memo
\* kind consumes the longest prefix of the input that N matches (and fails
\* when N matches none), and one more iteration of the grow loop would not
\* change the result.
C5_LeftRecLongestMatch ==
    (last.op = "parse_stream" /\ hist.calls = 1 /\ grammar[last.arg].memo = "LeftRec") =>
        LET ends == MatchEnds(grammar, input, last.arg)
            more == RunBody(grammar, input, last.arg, grammar[last.arg].parser,
                            Fork(LexerStateNew), env)
        IN  /\ IF ends = {} THEN last.st = "err"
               ELSE /\ last.st = "ok"
                    /\ state.cursor = CHOOSE j \in ends : \A k \in ends : k <= j
            /\ more.st = "ok" => (last.st = "ok" /\ CursorLe(more.lb, state))

\* An input 'a' 'b' .. 'b'.
IsAB(inp) ==
    /\ Len(inp) >= 1
    /\ inp[1] = "a"
    /\ \A i \in 2..Len(inp) : inp[i] = "b"

\* An input Num '-' Num .. '-' Num.
IsSubtraction(inp) ==
    /\ Len(inp) >= 1
    /\ inp[1] # "-" /\ inp[Len(inp)] # "-"
    /\ \A i \in 1..Len(inp) - 1 : ~(inp[i] = "-" /\ inp[i + 1] = "-")

\* The value of a subtraction read from the left: (..(n1 - n2) - ..) - nk;
\* acc is the value of the terms before the current one, cur the current one.
RECURSIVE LeftValue(_, _, _, _, _)
LeftValue(inp, i, first, acc, cur) ==
    IF i > Len(inp) THEN (IF first THEN cur ELSE acc - cur)
    ELSE IF inp[i] = "-"
         THEN LeftValue(inp, i + 1, FALSE, IF first THEN cur ELSE acc - cur, 0)
         ELSE LeftValue(inp, i + 1, first, acc, 10 * cur + DigitValue(inp[i]))

\* C6: for the directly left-recursive P -> P 'b' | 'a' and
\* Expr -> Expr '-' Num | Num under left_rec, a parse with a fresh memo of
\* one base match followed by n tails succeeds, leaves the state after all
\* n+1 items and builds the value from the left.
C6_DirectLeftRecursion ==
    (last.op = "parse_stream" /\ hist.calls = 1) =>
        /\ (grammar = GrammarP /\ last.arg = "P" /\ IsAB(input)) =>
              /\ last.st = "ok"
              /\ state.cursor = Len(input)
              /\ last.val = VStr(input)
        /\ (grammar = GrammarExpr /\ last.arg = "Expr" /\ IsSubtraction(input)) =>
              /\ last.st = "ok"
              /\ state.cursor = Len(input)
              /\ last.val = VInt(LeftValue(input, 1, TRUE, 0, 0))

\* Scenario S1: "9-3-2" parsed as (9-3)-2 = 4.
C6_S1 ==
    /\ last.op = "parse_stream" /\ hist.calls = 1
    /\ grammar = GrammarExpr /\ last.arg = "Expr"
    /\ input = InputS1
    /\ last.st = "ok"
    /\ last.val = VInt(4)
    /\ state.cursor = Len(InputS1)

\* C7: a parse run with an entry parser object that has parsed before gives
\* the result a newly made parser gives on that input.
C7_SecondParseAsFresh ==
    last.op = "parse_stream" =>
        LET fresh == parse_stream(grammar, input, last.arg, LexerStateNew, EnvNew)
        IN  /\ last.st = fresh.st
            /\ last.val = fresh.val
            /\ state = fresh.lb

----------------------------------------------------------------------------
(* The parser compiler (parse-it-codegen): captures (middle.rs).            *)
(*                                                                          *)
(* A pattern is its identifier and its span (the position of the pattern    *)
(* in the grammar text); syn compares patterns without their spans.         *)

MaxCapDepth == 1

\* Span::call_site(), the span of a bare quote!
CallSite == 0

PatIdent(name, span) == [name |-> name, span |-> span]

\* enum Capture
Loud == [kind |-> "Loud"]
Slient == [kind |-> "Slient"]
Named(pat, cap) == [kind |-> "Named", pat |-> pat, cap |-> cap]
Tuple(c1, c2) == [kind |-> "Tuple", fst |-> c1, snd |-> c2]
TupleVec(idents) == [kind |-> "TupleVec", idents |-> idents]

\* Capture::is_loud
RECURSIVE is_loud(_)
is_loud(c) ==
    IF c.kind = "Loud" THEN TRUE
    ELSE IF c.kind = "Slient" THEN FALSE
    ELSE IF c.kind = "Named" THEN TRUE
    ELSE IF c.kind = "Tuple" THEN is_loud(c.snd)
    ELSE TRUE

\* Capture::to_anonymous
to_anonymous(c) == IF is_loud(c) THEN Loud ELSE Slient

\* Result<Capture, TokenStream>: the error is a compile_error! with a span
CapOk(c) == [st |-> "ok", cap |-> c]
CapErr(msg, span) == [st |-> "err", msg |-> msg, span |-> span]

\* Capture::unify without the (_, Loud) arm
RECURSIVE unify_left_loud(_, _)
unify_left_loud(self, cap) ==
    IF self.kind = "Named" /\ cap.kind = "Named"
    THEN IF self.pat.name = cap.pat.name
         THEN LET c == unify_left_loud(self.cap, cap.cap)
              IN  IF c.st = "ok" THEN CapOk(Named(self.pat, c.cap))
                  ELSE CapOk(Named(self.pat, Loud))
         ELSE CapErr("pattern mismatch", self.pat.span)
    ELSE IF self.kind = "Tuple" /\ cap.kind = "Tuple"
    THEN LET c1 == unify_left_loud(self.fst, cap.fst)
         IN  IF c1.st = "err" THEN c1
             ELSE LET c2 == unify_left_loud(self.snd, cap.snd)
                  IN  IF c2.st = "err" THEN c2
                      ELSE CapOk(Tuple(c1.cap, c2.cap))
    ELSE IF self.kind = "Loud" THEN CapOk(Loud)
    ELSE IF self.kind = "Slient" /\ cap.kind = "Slient" THEN CapOk(Slient)
    ELSE CapErr("capture mismatch", CallSite)

\* Capture::unify: the match arms in their order
RECURSIVE unify(_, _)
unify(self, cap) ==
    IF self.kind = "Named" /\ cap.kind = "Named"
    THEN IF self.pat.name = cap.pat.name
         THEN LET c == unify(self.cap, cap.cap)
              IN  IF c.st = "ok" THEN CapOk(Named(self.pat, c.cap))
                  ELSE CapOk(Named(self.pat, Loud))
         ELSE CapErr("pattern mismatch", self.pat.span)
    ELSE IF self.kind = "Tuple" /\ cap.kind = "Tuple"
    THEN LET c1 == unify(self.fst, cap.fst)
         IN  IF c1.st = "err" THEN c1
             ELSE LET c2 == unify(self.snd, cap.snd)
                  IN  IF c2.st = "err" THEN c2
                      ELSE CapOk(Tuple(c1.cap, c2.cap))
    ELSE IF self.kind = "Loud" THEN CapOk(Loud)
    ELSE IF cap.kind = "Loud" THEN CapOk(Loud)
    ELSE IF self.kind = "Slient" /\ cap.kind = "Slient" THEN CapOk(Slient)
    ELSE CapErr("capture mismatch", CallSite)

\* struct Parsing: the ParseOp it ends with and its capture
Parsing(op, capture) == [parser |-> op, capture |-> capture]

\* Result<Parsing, TokenStream>
ParsingOk(p) == [st |-> "ok", parsing |-> p]
ParsingErr(msg, span) == [st |-> "err", msg |-> msg, span |-> span]

\* the loop of Parsing::choice over rest[i..]: `capture` and `parsers` are
\* the locals of the same names
RECURSIVE ChoiceLoop(_, _, _, _)
ChoiceLoop(capture, parsers, rest, i) ==
    IF i > Len(rest) THEN ParsingOk(Parsing(Choice(parsers), capture))
    ELSE LET c == unify(capture, rest[i].capture)
         IN  IF c.st = "err" THEN ParsingErr(c.msg, c.span)
             ELSE ChoiceLoop(c.cap, Append(parsers, rest[i].parser), rest, i + 1)

\* Parsing::choice
choice(self, rest) == ChoiceLoop(self.capture, <<self.parser>>, rest, 1)

----------------------------------------------------------------------------
(* Specification SpecCapture: the captures of the alternatives of a Choice  *)
(* atom are unified, in either order, and the Choice is built.              *)

CapNames == {"x", "y"}

\* the captures of nesting depth <= d whose patterns stand at `span`
RECURSIVE CapturesUpTo(_, _)
CapturesUpTo(span, d) ==
    IF d = 0 THEN {Loud, Slient, TupleVec(<<"x">>)}
    ELSE LET C == CapturesUpTo(span, d - 1)
         IN  C \cup {Named(PatIdent(n, span), c) : n \in CapNames, c \in C}
               \cup {Tuple(c1, c2) : c1 \in C, c2 \in C}

\* input[i] is the capture of the i-th alternative; its patterns stand at i
InitCapture ==
    /\ input \in {<<a, b>> : a \in CapturesUpTo(1, MaxCapDepth),
                             b \in CapturesUpTo(2, MaxCapDepth)}
    /\ grammar = NoGrammar
    /\ state = LexerStateNew
    /\ env = EnvNew
    /\ hist = HistNew
    /\ last = NoOp
    /\ panicked = FALSE

RecordCompile(name, arg, r) ==
    /\ last' = [op |-> name, impl |-> "codegen", arg |-> arg, pre |-> state,
                st |-> r.st, val |-> r, tried |-> 0]
    /\ UNCHANGED <<input, grammar, state, env, hist, panicked>>

\* input[i].unify(&input[j])
UnifyCaptures(i, j) ==
    RecordCompile("unify", <<input[i], input[j]>>, unify(input[i], input[j]))

\* the atom (alternative 1 | alternative 2), each alternative a terminal
\* with its capture
CompileChoice ==
    RecordCompile("choice", input,
                  choice(Parsing(JustChar("a"), input[1]),
                         <<Parsing(JustChar("b"), input[2])>>))

NextCapture ==
    \/ \E i, j \in 1..2 : UnifyCaptures(i, j)
    \/ CompileChoice

SpecCapture == InitCapture /\ [][NextCapture]_vars

----------------------------------------------------------------------------
(* Properties of captures (specification SpecCapture).                      *)

\* a capture without the spans of its patterns (syn's equality of patterns)
RECURSIVE Unspanned(_)
Unspanned(c) ==
    IF c.kind = "Named" THEN Named(PatIdent(c.pat.name, CallSite), Unspanned(c.cap))
    ELSE IF c.kind = "Tuple" THEN Tuple(Unspanned(c.fst), Unspanned(c.snd))
    ELSE c

\* C12: for all captures a and b, unify(a, b) succeeds if and only if
\* unify(b, a) succeeds, and when both succeed they give the same capture
\* (patterns compared as syn compares them, without their spans).
C12_UnifySymmetric ==
    last.op = "unify" =>
        LET flipped == unify(last.arg[2], last.arg[1])
        IN  /\ last.st = flipped.st
            /\ last.st = "ok" => Unspanned(last.val.cap) = Unspanned(flipped.cap)

\* two different captures, the first a tuple, were unified into a tuple
C12_UnifiedDifferentCaptures ==
    /\ last.op = "unify" /\ last.st = "ok"
    /\ Unspanned(last.arg[1]) # Unspanned(last.arg[2])
    /\ last.arg[1].kind = "Tuple"
    /\ last.val.cap # Loud

\* C13: a Choice whose alternatives carry Named captures with different
\* patterns (x:P | y:P) is rejected with a "pattern mismatch" error whose
\* span is that of the later alternative's pattern.
C13_MismatchPointsAtLater ==
    (/\ last.op = "choice"
     /\ last.arg[1].kind = "Named" /\ last.arg[2].kind = "Named"
     /\ last.arg[1].pat.name # last.arg[2].pat.name)
    => /\ last.st = "err"
       /\ last.val.msg = "pattern mismatch"
       /\ last.val.span = last.arg[2].pat.span

----------------------------------------------------------------------------
(* The parser compiler: the self-rewriter (utils.rs) and Rule::compile.     *)
(*                                                                          *)
(* A token is a string.  An action expression is an identifier, a literal   *)
(* or a macro invocation `path!(tokens)`; the arguments of a macro are      *)
(* tokens until the rewriter parses them.                                   *)

MaxTokens == 3

ExprPath(ident) == [kind |-> "path", ident |-> ident]
ExprLit(lit) == [kind |-> "lit", lit |-> lit]
ExprMacro(path, tokens) == [kind |-> "macro", path |-> path, tokens |-> tokens]

\* ParserConfig::default().parse_macros
DefaultParseMacros == {"print", "println", "eprint", "eprintln", "format", "dbg"}

\* RewriteSelfVisitor::new: self_ident
SelfIdent == "r#__self"

\* ToTokens of an expression
ToTokens(expr) ==
    IF expr.kind = "path" THEN <<expr.ident>>
    ELSE IF expr.kind = "lit" THEN <<expr.lit>>
    ELSE <<expr.path, "!", "(">> \o expr.tokens \o <<")">>

\* the expression a single token parses as
ExprOfToken(t) == IF t = "1" THEN ExprLit(t) ELSE ExprPath(t)

\* MacroArgs::parse: Punctuated::<Expr, Token![,]>::parse_terminated, that
\* is expressions separated by commas with an optional trailing comma
RECURSIVE ParseMacroArgs(_)
ParseMacroArgs(tokens) ==
    IF tokens = <<>> THEN [ok |-> TRUE, args |-> <<>>]
    ELSE IF Head(tokens) = "," THEN [ok |-> FALSE, args |-> <<>>]
    ELSE IF Len(tokens) = 1 THEN [ok |-> TRUE, args |-> <<ExprOfToken(tokens[1])>>]
    ELSE IF tokens[2] # "," THEN [ok |-> FALSE, args |-> <<>>]
    ELSE LET r == ParseMacroArgs(SubSeq(tokens, 3, Len(tokens)))
         IN  [ok |-> r.ok, args |-> <<ExprOfToken(tokens[1])>> \o r.args]

\* the visitor's result: the expression as rewritten and referred_self
Visited(expr, referred_self) == [expr |-> expr, referred_self |-> referred_self]

\* RewriteSelfVisitor::visit_ident_mut
visit_ident_mut(i, referred_self) ==
    IF i = "self" THEN Visited(ExprPath(SelfIdent), TRUE)
    ELSE Visited(ExprPath(i), referred_self)

RECURSIVE visit_expr_mut(_, _, _)

\* the loops of visit_macro_mut over args[i..]: every argument is visited,
\* then written back followed by a comma
RECURSIVE VisitArgs(_, _, _, _, _)
VisitArgs(parse_macros, args, i, tokens, referred_self) ==
    IF i > Len(args) THEN [tokens |-> tokens, referred_self |-> referred_self]
    ELSE LET v == visit_expr_mut(parse_macros, args[i], referred_self)
         IN  VisitArgs(parse_macros, args, i + 1,
                       tokens \o ToTokens(v.expr) \o <<",">>, v.referred_self)

\* RewriteSelfVisitor::visit_macro_mut
visit_macro_mut(parse_macros, m, referred_self) ==
    IF m.path \in parse_macros
    THEN LET parsed == ParseMacroArgs(m.tokens)
         IN  IF parsed.ok
             THEN LET r == VisitArgs(parse_macros, parsed.args, 1, <<>>, referred_self)
                  IN  Visited(ExprMacro(m.path, r.tokens), r.referred_self)
             ELSE Visited(m, referred_self)
    ELSE Visited(m, referred_self)

\* VisitMut::visit_expr_mut with the two overridden methods
visit_expr_mut(parse_macros, expr, referred_self) ==
    IF expr.kind = "path" THEN visit_ident_mut(expr.ident, referred_self)
    ELSE IF expr.kind = "macro" THEN visit_macro_mut(parse_macros, expr, referred_self)
    ELSE Visited(expr, referred_self)

\* Rule::compile when the production has compiled to `parser` and the
\* visitor has run
MapVisited(parser, visitor) ==
    ParsingOk(Parsing(Map(parser.parser, visitor.expr),
                      IF visitor.referred_self
                      THEN Named(PatIdent(SelfIdent, CallSite), parser.capture)
                      ELSE parser.capture))

\* Rule::compile when the production has compiled to `parser`
RuleCompile(parse_macros, parser, action) ==
    MapVisited(parser, visit_expr_mut(parse_macros, action, FALSE))

----------------------------------------------------------------------------
(* Specification SpecRewrite: the action of one rule is rewritten, alone    *)
(* and as a part of Rule::compile.                                          *)

ActionTokens == {"self", "x", "1", ","}

MacroPaths == {"println", "format", "vec"}

ActionExprs ==
    {ExprPath("self"), ExprPath("x"), ExprLit("1")}
    \cup {ExprMacro(m, t) : m \in MacroPaths, t \in SeqsUpTo(ActionTokens, MaxTokens)}

\* input is the rule: its action, the capture its production compiles to,
\* and the parse_macros of the module's configuration
InitRewrite ==
    /\ input \in [action : ActionExprs, capture : {Slient, Loud},
                  parse_macros : {DefaultParseMacros, {}}]
    /\ grammar = NoGrammar
    /\ state = LexerStateNew
    /\ env = EnvNew
    /\ hist = HistNew
    /\ last = NoOp
    /\ panicked = FALSE

\* RewriteSelfVisitor::new(parse_macros).visit_expr_mut(&mut action)
RewriteSelf ==
    LET v == visit_expr_mut(input.parse_macros, input.action, FALSE)
    IN  RecordCompile("rewrite_self", input.action,
                      [st |-> "ok", action |-> v.expr,
                       referred_self |-> v.referred_self, capture |-> input.capture])

\* Rule::compile of the rule ('a' => action)
CompileRule ==
    LET r == RuleCompile(input.parse_macros,
                         Parsing(JustChar("a"), input.capture), input.action)
        v == visit_expr_mut(input.parse_macros, input.action, FALSE)
    IN  RecordCompile("compile_rule", input.action,
                      [st |-> r.st, action |-> r.parsing.parser.expr,
                       referred_self |-> v.referred_self,
                       capture |-> r.parsing.capture])

NextRewrite ==
    \/ RewriteSelf
    \/ CompileRule

SpecRewrite == InitRewrite /\ [][NextRewrite]_vars

----------------------------------------------------------------------------
(* Properties of the self-rewriter (specification SpecRewrite).             *)

\* the identifier `self` occurs among the tokens
HasSelf(tokens) == \E i \in 1..Len(tokens) : tokens[i] = "self"

\* C14: if the action contains no `self`, the rewriter leaves its token
\* sequence as it was (the argument tokens of allow-listed macros
\* included), reports referred_self = FALSE, and the rule's capture is not
\* wrapped in Named.
C14_NoSelfLeavesActionUnchanged ==
    (last.op \in {"rewrite_self", "compile_rule"} /\ ~HasSelf(ToTokens(last.arg)))
    => /\ ToTokens(last.val.action) = ToTokens(last.arg)
       /\ last.val.referred_self = FALSE
       /\ last.val.capture = input.capture

----------------------------------------------------------------------------
(* The parser compiler: the grammar AST (syntax.rs) and the progress flags  *)
(* and left calls of the frontend (parser/frontend.rs).                     *)

MaxAtomDepth == 1

\* enum Atom
Terminal(lit) == [kind |-> "Terminal", lit |-> lit]
NonTerminal(name) == [kind |-> "NonTerminal", name |-> name]
Sub(production) == [kind |-> "Sub", production |-> production]
AtomChoice(first, rest) == [kind |-> "Choice", first |-> first, rest |-> rest]
AtomRepeat(atom) == [kind |-> "Repeat", atom |-> atom]
Repeat1(atom) == [kind |-> "Repeat1", atom |-> atom]
AtomOptional(atom) == [kind |-> "Optional", atom |-> atom]
AtomLookAhead(atom) == [kind |-> "LookAhead", atom |-> atom]
AtomLookAheadNot(atom) == [kind |-> "LookAheadNot", atom |-> atom]

\* struct Part: its capture (syntax::Capture) and its atom
Part(capture, atom) == [capture |-> capture, part |-> atom]

\* syntax::Capture::NotSpecified
NotSpecified == [kind |-> "NotSpecified"]

\* struct Production: a non-empty sequence of parts
Production(parts) == [parts |-> parts]

RECURSIVE Atom_must_progress(_)
RECURSIVE Atom_may_progress(_)
RECURSIVE FirstProgressFrom(_, _)

\* Production::first_progress from part i on: a part that must progress
\* ends the iteration; a part that can neither is skipped
FirstProgressFrom(parts, i) ==
    IF i > Len(parts) THEN <<>>
    ELSE IF Atom_must_progress(parts[i].part) THEN <<parts[i]>>
    ELSE IF Atom_may_progress(parts[i].part)
    THEN <<parts[i]>> \o FirstProgressFrom(parts, i + 1)
    ELSE FirstProgressFrom(parts, i + 1)

\* Production::first_progress
first_progress(production) == FirstProgressFrom(production.parts, 1)

\* Production::must_progress
Production_must_progress(production) ==
    LET first == first_progress(production)
    IN  \E i \in 1..Len(first) : Atom_must_progress(first[i].part)

\* Production::may_progress
Production_may_progress(production) ==
    LET first == first_progress(production)
    IN  \E i \in 1..Len(first) : Atom_may_progress(first[i].part)

\* Atom::must_progress
Atom_must_progress(atom) ==
    IF atom.kind \in {"Terminal", "NonTerminal"} THEN TRUE
    ELSE IF atom.kind \in {"Repeat", "Optional", "LookAhead", "LookAheadNot"} THEN FALSE
    ELSE IF atom.kind = "Sub" THEN Production_must_progress(atom.production)
    ELSE IF atom.kind = "Choice"
    THEN /\ Production_must_progress(atom.first)
         /\ \A i \in 1..Len(atom.rest) : Production_must_progress(atom.rest[i])
    ELSE Atom_must_progress(atom.atom)

\* Atom::may_progress with Repeat1 among the atoms that never progress
Atom_may_progress_repeat1(atom) ==
    IF atom.kind \in {"Terminal", "NonTerminal"} THEN TRUE
    ELSE IF atom.kind \in {"LookAhead", "LookAheadNot", "Repeat1"} THEN FALSE
    ELSE IF atom.kind = "Sub" THEN Production_may_progress(atom.production)
    ELSE IF atom.kind = "Choice"
    THEN \/ Production_may_progress(atom.first)
         \/ \E i \in 1..Len(atom.rest) : Production_may_progress(atom.rest[i])
    ELSE Atom_may_progress(atom.atom)

\* Atom::may_progress
Atom_may_progress(atom) ==
    IF atom.kind \in {"Terminal", "NonTerminal"} THEN TRUE
    ELSE IF atom.kind \in {"LookAhead", "LookAheadNot"} THEN FALSE
    ELSE IF atom.kind = "Sub" THEN Production_may_progress(atom.production)
    ELSE IF atom.kind = "Choice"
    THEN \/ Production_may_progress(atom.first)
         \/ \E i \in 1..Len(atom.rest) : Production_may_progress(atom.rest[i])
    ELSE Atom_may_progress(atom.atom)

\* Rule::left_calls: the first-progress parts that are non-terminals
left_calls(production) ==
    LET first == first_progress(production)
    IN  {first[i].part.name : i \in {j \in 1..Len(first) : first[j].part.kind = "NonTerminal"}}

----------------------------------------------------------------------------
(* Specification SpecProgress: the progress flags, the first-progress       *)
(* parts and the left calls of one production of the parser A.              *)

\* the productions of one or two parts over a set of atoms
ProductionsOver(atoms) ==
    {Production(<<Part(NotSpecified, a)>>) : a \in atoms}
    \cup {Production(<<Part(NotSpecified, a), Part(NotSpecified, b)>>) : a \in atoms, b \in atoms}

\* the atoms of nesting depth <= d
RECURSIVE AtomsUpTo(_)
AtomsUpTo(d) ==
    IF d = 0 THEN {Terminal("x"), NonTerminal("B")}
    ELSE LET A == AtomsUpTo(d - 1)
             P == ProductionsOver(A)
         IN  A \cup {AtomRepeat(a) : a \in A} \cup {Repeat1(a) : a \in A}
               \cup {AtomOptional(a) : a \in A}
               \cup {AtomLookAhead(a) : a \in A} \cup {AtomLookAheadNot(a) : a \in A}
               \cup {Sub(p) : p \in P}
               \cup {AtomChoice(p, <<Production(<<Part(NotSpecified, a)>>)>>) : p \in P, a \in AtomsUpTo(0)}

\* input is the production of a rule of A: an atom, alone or followed by a
\* terminal or by a non-terminal
InitProgress ==
    /\ input \in {Production(<<Part(NotSpecified, a)>>) : a \in AtomsUpTo(MaxAtomDepth)}
            \cup {Production(<<Part(NotSpecified, a), Part(NotSpecified, b)>>) :
                     a \in AtomsUpTo(MaxAtomDepth), b \in {Terminal("y"), NonTerminal("C")}}
    /\ grammar = NoGrammar
    /\ state = LexerStateNew
    /\ env = EnvNew
    /\ hist = HistNew
    /\ last = NoOp
    /\ panicked = FALSE

\* part.part.must_progress() and part.part.may_progress() of the first part
AtomProgress ==
    RecordCompile("atom_progress", input.parts[1].part,
                  [st |-> "ok", must |-> Atom_must_progress(input.parts[1].part),
                   may |-> Atom_may_progress(input.parts[1].part)])

\* production.must_progress() and production.may_progress()
ProductionProgress ==
    RecordCompile("production_progress", input,
                  [st |-> "ok", must |-> Production_must_progress(input),
                   may |-> Production_may_progress(input)])

\* rule.left_calls() of the rule with this production
RuleLeftCalls ==
    RecordCompile("left_calls", input, [st |-> "ok", calls |-> left_calls(input)])

NextProgress ==
    \/ AtomProgress
    \/ ProductionProgress
    \/ RuleLeftCalls

SpecProgress == InitProgress /\ [][NextProgress]_vars

----------------------------------------------------------------------------
(* Properties of the progress flags and the left calls (SpecProgress).      *)

\* the flags of every atom and every production inside an atom
RECURSIVE MustImpliesMayIn(_)
MustImpliesMayInProduction(production) ==
    /\ Production_must_progress(production) => Production_may_progress(production)
    /\ \A i \in 1..Len(production.parts) : MustImpliesMayIn(production.parts[i].part)

MustImpliesMayIn(atom) ==
    /\ Atom_must_progress(atom) => Atom_may_progress(atom)
    /\ IF atom.kind \in {"Terminal", "NonTerminal"} THEN TRUE
       ELSE IF atom.kind = "Sub" THEN MustImpliesMayInProduction(atom.production)
       ELSE IF atom.kind = "Choice"
       THEN /\ MustImpliesMayInProduction(atom.first)
            /\ \A i \in 1..Len(atom.rest) : MustImpliesMayInProduction(atom.rest[i])
       ELSE MustImpliesMayIn(atom.atom)

\* C16: for every Atom and every Production, must_progress() = TRUE implies
\* may_progress() = TRUE: for the flags the compiler has computed, and for
\* those of every atom and production nested in its argument.
C16_MustImpliesMay ==
    /\ last.op \in {"atom_progress", "production_progress"} =>
          (last.val.must => last.val.may)
    /\ last.op = "atom_progress" => MustImpliesMayIn(last.arg)
    /\ last.op = "production_progress" => MustImpliesMayInProduction(last.arg)

\* a production that must progress although its first part need not
C16_MustAfterOptionalPart ==
    /\ last.op = "production_progress"
    /\ last.val.must /\ last.val.may
    /\ Len(last.arg.parts) = 2
    /\ ~Atom_must_progress(last.arg.parts[1].part)

\* the non-terminals an atom, or the first-progress parts of a production,
\* can invoke before any token has been consumed, nested ones included
RECURSIVE FrontCalls(_)
ProductionFrontCalls(production) ==
    LET first == first_progress(production)
    IN  UNION {FrontCalls(first[i].part) : i \in 1..Len(first)}

FrontCalls(atom) ==
    IF atom.kind = "Terminal" THEN {}
    ELSE IF atom.kind = "NonTerminal" THEN {atom.name}
    ELSE IF atom.kind = "Sub" THEN ProductionFrontCalls(atom.production)
    ELSE IF atom.kind = "Choice"
    THEN ProductionFrontCalls(atom.first)
         \cup UNION {ProductionFrontCalls(atom.rest[i]) : i \in 1..Len(atom.rest)}
    ELSE FrontCalls(atom.atom)

\* C20: the left-calls set of a non-terminal contains every non-terminal
\* that a rule of it can invoke before any token has been consumed, those
\* nested inside Sub, Choice, Repeat, Repeat1, Optional, LookAhead and
\* LookAheadNot atoms at the front of the production included.
C20_LeftCallsContainNested ==
    last.op = "left_calls" => ProductionFrontCalls(last.arg) \subseteq last.val.calls

----------------------------------------------------------------------------
(* The parser compiler: the analyses of a grammar module and its lowering   *)
(* (parser/frontend.rs, and frontend.rs for the compile of ParseIt).        *)
(*                                                                          *)
(* An identifier is its name and its span; the span of a reference is the   *)
(* rule it stands in, <<index of the parser, index of the rule>>.           *)
(* OrderedMap and OrderedSet (hashlink) are sequences of identifiers in     *)
(* insertion order; HashMap and HashSet (rustc_hash) are functions and      *)
(* sets, iterated in an order the caller does not control: `order`, a       *)
(* sequence of all names.                                                   *)

Ident(name, span) == [name |-> name, span |-> span]

\* struct Rule (syntax.rs)
RuleOf(production, action) == [production |-> production, action |-> action]

\* struct Parser (syntax.rs)
Parser(name, rules) == [name |-> name, rules |-> rules]

\* Result<_, TokenStream> of the compiler; a panic; a loop that never ends
CompileOk(v) == [st |-> "ok", val |-> v]
CompileErr(msg, span) == [st |-> "err", msg |-> msg, span |-> span]
CompilePanic(msg) == [st |-> "panic", msg |-> msg]
CompileLoops == [st |-> "loops"]

\* OrderedMap::keys
Keys(m) == [i \in 1..Len(m) |-> m[i].name]

\* OrderedMap::contains_key
ContainsKey(m, name) == \E i \in 1..Len(m) : m[i].name = name

\* OrderedMap::remove
OrderedRemove(m, name) == SelectSeq(m, LAMBDA e : e.name # name)

\* OrderedMap::insert, OrderedSet::insert: a key that is present keeps its
\* identifier and moves to the back
OrderedInsert(m, key) ==
    IF ContainsKey(m, key.name)
    THEN LET i == CHOOSE j \in 1..Len(m) : m[j].name = key.name
         IN  Append(OrderedRemove(m, key.name), m[i])
    ELSE Append(m, key)

\* the iteration of a HashSet, or of the keys of a HashMap
IterOf(set, order) == SelectSeq(order, LAMBDA n : n \in set)

RECURSIVE Atom_analyze_direct_depends(_, _, _, _)

\* Production::analyze_direct_depends: for part in self.parts(), from part i
RECURSIVE PartsDirectDepends(_, _, _, _, _)
PartsDirectDepends(parts, i, depends, curr, span) ==
    IF i > Len(parts) THEN depends
    ELSE PartsDirectDepends(parts, i + 1,
             Atom_analyze_direct_depends(parts[i].part, depends, curr, span), curr, span)

\* Atom::analyze_direct_depends (Atom::Choice): for p in rest, from rest[i]
RECURSIVE RestDirectDepends(_, _, _, _, _)
RestDirectDepends(rest, i, depends, curr, span) ==
    IF i > Len(rest) THEN depends
    ELSE RestDirectDepends(rest, i + 1,
             PartsDirectDepends(rest[i].parts, 1, depends, curr, span), curr, span)

\* Atom::analyze_direct_depends
Atom_analyze_direct_depends(atom, depends, curr, span) ==
    IF atom.kind = "NonTerminal"
    THEN IF atom.name # curr THEN OrderedInsert(depends, Ident(atom.name, span))
         ELSE depends
    ELSE IF atom.kind = "Terminal" THEN depends
    ELSE IF atom.kind = "Sub" THEN PartsDirectDepends(atom.production.parts, 1, depends, curr, span)
    ELSE IF atom.kind = "Choice"
    THEN RestDirectDepends(atom.rest, 1,
             PartsDirectDepends(atom.first.parts, 1, depends, curr, span), curr, span)
    ELSE Atom_analyze_direct_depends(atom.atom, depends, curr, span)

\* Parser::analyze_direct_depends, the closure of or_insert_with: for rule
\* in &self.rules, from rule i; p is the index of the parser in the module
RECURSIVE RulesDirectDepends(_, _, _, _)
RulesDirectDepends(parser, p, i, depends) ==
    IF i > Len(parser.rules) THEN depends
    ELSE RulesDirectDepends(parser, p, i + 1,
             PartsDirectDepends(parser.rules[i].production.parts, 1, depends,
                                parser.name, <<p, i>>))

\* the names the module declares; the first parser of a name
DeclaredNames(parsers) == {parsers[i].name : i \in 1..Len(parsers)}

FirstNamed(parsers, name) ==
    CHOOSE i \in 1..Len(parsers) :
        /\ parsers[i].name = name
        /\ \A j \in 1..(i - 1) : parsers[j].name # name

\* ctx.direct_depends after Parser::analyze_direct_depends of every parser:
\* entry(name).or_insert_with keeps what the first parser of a name gave
analyze_direct_depends(parsers) ==
    [n \in DeclaredNames(parsers) |->
        RulesDirectDepends(parsers[FirstNamed(parsers, n)], FirstNamed(parsers, n), 1, <<>>)]

\* ctx.left_calls after Parser::analyze_left_calls of every parser
analyze_left_calls(parsers) ==
    [n \in DeclaredNames(parsers) |->
        LET rules == parsers[FirstNamed(parsers, n)].rules
        IN  UNION {left_calls(rules[i].production) : i \in 1..Len(rules)}]

\* ParserMod::check_missing_items: parser i, key j of its direct depends
RECURSIVE CheckMissingFrom(_, _, _, _)
CheckMissingFrom(parsers, direct_depends, i, j) ==
    IF i > Len(parsers) THEN CompileOk(VUnit)
    ELSE LET keys == direct_depends[parsers[i].name]
         IN  IF j > Len(keys) THEN CheckMissingFrom(parsers, direct_depends, i + 1, 1)
             ELSE IF keys[j].name \notin DeclaredNames(parsers)
             THEN CompileErr("Parser not found", keys[j].span)
             ELSE CheckMissingFrom(parsers, direct_depends, i, j + 1)

check_missing_items(parsers) ==
    CheckMissingFrom(parsers, analyze_direct_depends(parsers), 1, 1)

\* analyze_left_recursion: for dep in &ctx.left_calls[name], from deps[i];
\* gives the stack, the left-recursion set and whether the loop broke
RECURSIVE LeftCallsLoop(_, _, _, _, _)
LeftCallsLoop(deps, i, name, stack, left_recursion) ==
    IF i > Len(deps) THEN [stack |-> stack, left_recursion |-> left_recursion]
    ELSE IF deps[i] \in left_recursion
    THEN LeftCallsLoop(deps, i + 1, name, stack, left_recursion)
    ELSE LET inserted == ~ContainsKey(stack, deps[i])
             pushed == OrderedInsert(stack, Ident(deps[i], CallSite))
         IN  IF ~inserted \/ deps[i] = name
             THEN [stack |-> pushed, left_recursion |-> left_recursion \cup {name}]
             ELSE LeftCallsLoop(deps, i + 1, name, pushed, left_recursion)

\* analyze_left_recursion: while let Some(name) = stack.pop_back().  `seen`
\* holds the (stack, set) pairs the loop head has been at: the loop reads
\* nothing else, so a pair met again means that the loop never ends.
RECURSIVE StackLoop(_, _, _, _, _)
StackLoop(left_calls_of, order, stack, left_recursion, seen) ==
    IF stack = <<>> THEN CompileOk(left_recursion)
    ELSE IF <<stack, left_recursion>> \in seen THEN CompileLoops
    ELSE LET name == stack[Len(stack)].name
             popped == SubSeq(stack, 1, Len(stack) - 1)
         IN  IF name \notin DOMAIN left_calls_of
             THEN CompilePanic("no entry found for key")
             ELSE LET r == LeftCallsLoop(IterOf(left_calls_of[name], order), 1, name,
                                         popped, left_recursion)
                  IN  StackLoop(left_calls_of, order, r.stack, r.left_recursion,
                                seen \cup {<<stack, left_recursion>>})

\* analyze_left_recursion whose `for` loop is left, instead of continued,
\* at a name that is in ctx.left_recursion already
RECURSIVE LeftRecursionLoopBreak(_, _, _, _, _)
LeftRecursionLoopBreak(left_calls_of, order, names, i, left_recursion) ==
    IF i > Len(names) THEN CompileOk(left_recursion)
    ELSE IF names[i] \in left_recursion THEN CompileOk(left_recursion)
    ELSE LET r == StackLoop(left_calls_of, order, <<Ident(names[i], CallSite)>>,
                            left_recursion, {})
         IN  IF r.st # "ok" THEN r
             ELSE LeftRecursionLoopBreak(left_calls_of, order, names, i + 1, r.val)

\* analyze_left_recursion: for name in ctx.left_calls.keys(), from names[i]
RECURSIVE LeftRecursionLoop(_, _, _, _, _)
LeftRecursionLoop(left_calls_of, order, names, i, left_recursion) ==
    IF i > Len(names) THEN CompileOk(left_recursion)
    ELSE IF names[i] \in left_recursion
    THEN LeftRecursionLoop(left_calls_of, order, names, i + 1, left_recursion)
    ELSE LET r == StackLoop(left_calls_of, order, <<Ident(names[i], CallSite)>>,
                            left_recursion, {})
         IN  IF r.st # "ok" THEN r
             ELSE LeftRecursionLoop(left_calls_of, order, names, i + 1, r.val)

\* analyze_left_recursion: ctx.left_recursion; `keys` is the iteration order
\* of ctx.left_calls, `order` that of the sets in it
analyze_left_recursion(parsers, keys, order) ==
    LET left_calls_of == analyze_left_calls(parsers)
    IN  LeftRecursionLoop(left_calls_of, order, IterOf(DOMAIN left_calls_of, keys), 1, {})

\* analyze_depends whose stack is extended with the direct dependencies of
\* the first name alone
RECURSIVE DependsLoopDirect(_, _, _)
DependsLoopDirect(direct_depends, depends, stack) ==
    IF stack = <<>> THEN CompileOk(depends)
    ELSE LET name == stack[Len(stack)]
             popped == SubSeq(stack, 1, Len(stack) - 1)
         IN  IF ContainsKey(depends, name.name)
             THEN DependsLoopDirect(direct_depends, depends, popped)
             ELSE IF name.name \notin DOMAIN direct_depends
             THEN CompilePanic("no entry found for key")
             ELSE DependsLoopDirect(direct_depends, OrderedInsert(depends, name),
                                    IF depends = <<>> THEN popped \o direct_depends[name.name]
                                    ELSE popped)

\* analyze_depends: while let Some(name) = stack.pop()
RECURSIVE DependsLoop(_, _, _)
DependsLoop(direct_depends, depends, stack) ==
    IF stack = <<>> THEN CompileOk(depends)
    ELSE LET name == stack[Len(stack)]
             popped == SubSeq(stack, 1, Len(stack) - 1)
         IN  IF ContainsKey(depends, name.name)
             THEN DependsLoop(direct_depends, depends, popped)
             ELSE IF name.name \notin DOMAIN direct_depends
             THEN CompilePanic("no entry found for key")
             ELSE DependsLoop(direct_depends, OrderedInsert(depends, name),
                              popped \o direct_depends[name.name])

\* analyze_depends with `depends` shared by all names instead of one
\* OrderedMap::default() per name
RECURSIVE AllDependsLoopShared(_, _, _, _)
AllDependsLoopShared(direct_depends, names, i, depends_of) ==
    IF i > Len(names) THEN CompileOk(depends_of)
    ELSE LET before == IF i = 1 THEN <<>> ELSE depends_of[names[i - 1]]
             r == DependsLoop(direct_depends, before, <<Ident(names[i], CallSite)>>)
         IN  IF r.st # "ok" THEN r
             ELSE AllDependsLoopShared(direct_depends, names, i + 1,
                      [depends_of EXCEPT ![names[i]] = OrderedRemove(r.val, names[i])])

\* analyze_depends: for name in ctx.direct_depends.keys(), from names[i]
RECURSIVE AllDependsLoop(_, _, _, _)
AllDependsLoop(direct_depends, names, i, depends_of) ==
    IF i > Len(names) THEN CompileOk(depends_of)
    ELSE LET r == DependsLoop(direct_depends, <<>>, <<Ident(names[i], CallSite)>>)
         IN  IF r.st # "ok" THEN r
             ELSE AllDependsLoop(direct_depends, names, i + 1,
                      [depends_of EXCEPT ![names[i]] = OrderedRemove(r.val, names[i])])

\* analyze_depends: ctx.depends; `keys` is the iteration order of
\* ctx.direct_depends
analyze_depends(parsers, keys) ==
    LET direct_depends == analyze_direct_depends(parsers)
    IN  AllDependsLoop(direct_depends, IterOf(DOMAIN direct_depends, keys), 1,
                       [n \in DOMAIN direct_depends |-> <<>>])

\* Parsing::just, call, then, repeat, optional, look_ahead, look_ahead_not
\* and choice_nocap (middle.rs)
just(lit) == Parsing(JustChar(lit), Slient)

\* Parsing::just_pat: a pattern is the tokens it accepts and the identifiers
\* it binds, PatVistor::collect_captures(&p)
just_pat(p) ==
    Parsing([op |-> "Pat", accept |-> p.accept, captures |-> p.binds], TupleVec(p.binds))

call(name, depends) ==
    Parsing([op |-> "Call", parser |-> name, depends |-> depends], Loud)

then(self, next) ==
    IF is_loud(self.capture) /\ ~is_loud(next.capture)
    THEN Parsing(ThenIgnore(self.parser, next.parser), self.capture)
    ELSE IF ~is_loud(self.capture) /\ is_loud(next.capture)
    THEN Parsing(IgnoreThen(self.parser, next.parser), next.capture)
    ELSE Parsing(Then(self.parser, next.parser), Tuple(self.capture, next.capture))

repeat(self, at_least) == Parsing(Repeat(self.parser, at_least), to_anonymous(self.capture))

optional(self) == Parsing(Optional(self.parser), to_anonymous(self.capture))

look_ahead(self) == Parsing(LookAhead(self.parser), Slient)

look_ahead_not(self) == Parsing(LookAheadNot(self.parser), Slient)

choice_nocap(parsers) ==
    Parsing(Choice([i \in 1..Len(parsers) |-> parsers[i].parser]), Loud)

\* the first error among results, 0 when there is none
FirstErr(results) ==
    IF \E i \in 1..Len(results) : results[i].st = "err"
    THEN CHOOSE i \in 1..Len(results) :
            /\ results[i].st = "err"
            /\ \A j \in 1..(i - 1) : results[j].st = "ok"
    ELSE 0

RECURSIVE Atom_compile(_, _, _)

\* Part::compile once its atom has compiled to r
PartCapture(part, r) ==
    IF r.st = "err" THEN r
    ELSE IF part.capture.kind = "Named"
    THEN ParsingOk(Parsing(r.parsing.parser, Named(part.capture.pat, r.parsing.capture)))
    ELSE IF part.capture.kind = "Loud" /\ ~is_loud(r.parsing.capture)
    THEN ParsingOk(Parsing(r.parsing.parser, Loud))
    ELSE r

\* Part::compile
Part_compile(part, depends_of, span) ==
    PartCapture(part, Atom_compile(part.part, depends_of, span))

\* Production::compile: result = result.then(part) for parts[i..], the
\* parts compiled
RECURSIVE ThenLoop(_, _, _)
ThenLoop(parts, i, result) ==
    IF i > Len(parts) THEN ParsingOk(result)
    ELSE ThenLoop(parts, i + 1, then(result, parts[i].parsing))

\* Production::compile once its parts have compiled to `parts`: the first
\* error is returned by `?`
ThenAll(parts) ==
    IF FirstErr(parts) # 0 THEN parts[FirstErr(parts)]
    ELSE ThenLoop(parts, 2, parts[1].parsing)

\* Production::compile
Production_compile(production, depends_of, span) ==
    ThenAll([i \in 1..Len(production.parts) |->
                Part_compile(production.parts[i], depends_of, span)])

\* Atom::compile of Sub and Choice once the productions have compiled:
\* first.compile()?.choice(rest), where the loop of choice stops at the
\* first error, of an alternative or of unify
ChoiceAll(atom, productions) ==
    IF atom.kind = "Sub" \/ productions[1].st = "err" THEN productions[1]
    ELSE LET e == FirstErr(productions)
             n == IF e = 0 THEN Len(productions) ELSE e - 1
             c == choice(productions[1].parsing, [i \in 1..(n - 1) |-> productions[i + 1].parsing])
         IN  IF c.st = "err" \/ e = 0 THEN c ELSE productions[e]

\* Atom::compile of Repeat, Repeat1, Optional, LookAhead and LookAheadNot
\* once the atom inside has compiled to r
WrapAtom(atom, r) ==
    IF r.st = "err" THEN r
    ELSE IF atom.kind = "Repeat" THEN ParsingOk(repeat(r.parsing, 0))
    ELSE IF atom.kind = "Repeat1" THEN ParsingOk(repeat(r.parsing, 1))
    ELSE IF atom.kind = "Optional" THEN ParsingOk(optional(r.parsing))
    ELSE IF atom.kind = "LookAhead" THEN ParsingOk(look_ahead(r.parsing))
    ELSE ParsingOk(look_ahead_not(r.parsing))

\* the productions of a Sub or Choice atom
ProductionsIn(atom) ==
    IF atom.kind = "Sub" THEN <<atom.production>> ELSE <<atom.first>> \o atom.rest

\* Atom::compile; depends_of is ctx.depends
Atom_compile(atom, depends_of, span) ==
    IF atom.kind = "Terminal" THEN ParsingOk(just(atom.lit))
    ELSE IF atom.kind = "NonTerminal"
    THEN IF atom.name \in DOMAIN depends_of
         THEN ParsingOk(call(atom.name, Keys(depends_of[atom.name])))
         ELSE ParsingErr("use of undeclared parser", span)
    ELSE IF atom.kind \in {"Sub", "Choice"}
    THEN ChoiceAll(atom, [i \in 1..Len(ProductionsIn(atom)) |->
                             Production_compile(ProductionsIn(atom)[i], depends_of, span)])
    ELSE WrapAtom(atom, Atom_compile(atom.atom, depends_of, span))

\* Rule::compile once the production has compiled to r
RuleMap(rule, r) ==
    IF r.st = "err" THEN r
    ELSE RuleCompile(DefaultParseMacros, r.parsing, rule.action)

\* Rule::compile
Rule_compile(rule, depends_of, span) ==
    RuleMap(rule, Production_compile(rule.production, depends_of, span))

\* enum MemoKind as Parser::compile chooses it
MemoKindOf(name, left_recursion) ==
    IF name \in left_recursion THEN "LeftRec" ELSE "Memorize"

\* struct ParserImpl
ParserImpl(name, parser, memo, depends) ==
    [name |-> name, parser |-> parser, memo |-> memo, depends |-> depends]

\* Parser::compile once the rules have compiled: choice_nocap returns the
\* first error; `single` is what a single rule compiles to
ParserImplOf(parser, rules, single, depends_of, left_recursion) ==
    IF FirstErr(rules) # 0
    THEN CompileErr(rules[FirstErr(rules)].msg, rules[FirstErr(rules)].span)
    ELSE CompileOk(ParserImpl(parser.name,
                       IF Len(rules) = 1 /\ single = "rule" THEN rules[1].parsing
                       ELSE choice_nocap([i \in 1..Len(rules) |-> rules[i].parsing]),
                       MemoKindOf(parser.name, left_recursion),
                       Keys(depends_of[parser.name])))

\* Parser::compile of the p-th parser of the module (parser/frontend.rs)
Parser_compile(parser, p, depends_of, left_recursion) ==
    ParserImplOf(parser,
                 [i \in 1..Len(parser.rules) |->
                     Rule_compile(parser.rules[i], depends_of, <<p, i>>)],
                 "choice", depends_of, left_recursion)

\* Parser::compile of frontend.rs: a single rule is not wrapped in a Choice
Parser_compile_single(parser, p, depends_of, left_recursion) ==
    ParserImplOf(parser,
                 [i \in 1..Len(parser.rules) |->
                     Rule_compile(parser.rules[i], depends_of, <<p, i>>)],
                 "rule", depends_of, left_recursion)

\* struct Middle
Middle(parsers) == [parsers |-> parsers]

\* ParserMod::compile: for parser in self.parsers, the parsers compiled
MiddleOf(impls) ==
    IF FirstErr(impls) # 0 THEN impls[FirstErr(impls)]
    ELSE CompileOk(Middle([p \in 1..Len(impls) |-> impls[p].val]))

\* ParserMod::compile after the analyses: `?` on a missing item; a panic or
\* an endless loop of an analysis is the outcome of the compile
CompileWith(parsers, single, missing, left_recursion, depends_of) ==
    IF missing.st # "ok" THEN missing
    ELSE IF left_recursion.st # "ok" THEN left_recursion
    ELSE IF depends_of.st # "ok" THEN depends_of
    ELSE MiddleOf([p \in 1..Len(parsers) |->
                      IF single = "rule"
                      THEN Parser_compile_single(parsers[p], p, depends_of.val, left_recursion.val)
                      ELSE Parser_compile(parsers[p], p, depends_of.val, left_recursion.val)])

\* ParserMod::compile (parser/frontend.rs)
ParserMod_compile(parsers, keys, order) ==
    CompileWith(parsers, "choice", check_missing_items(parsers),
                analyze_left_recursion(parsers, keys, order),
                analyze_depends(parsers, keys))

\* ParseIt::compile (frontend.rs): the same without check_missing_items
ParseIt_compile(parsers, keys, order) ==
    CompileWith(parsers, "rule", CompileOk(VUnit),
                analyze_left_recursion(parsers, keys, order),
                analyze_depends(parsers, keys))

----------------------------------------------------------------------------
(* Specification SpecCompile: a grammar module is analysed and compiled.    *)

NonTerminals == {"A", "B", "C"}

\* the orders a HashMap or HashSet of these names can be iterated in
Orders == {o \in [1..Cardinality(NonTerminals) -> NonTerminals] :
              \A i, j \in DOMAIN o : o[i] = o[j] => i = j}

ProductionOf(atoms) == Production([i \in 1..Len(atoms) |-> Part(NotSpecified, atoms[i])])

\* the rules the parsers are made of
FirstRules ==
    {RuleOf(ProductionOf(atoms), ExprLit("1")) :
        atoms \in {<<Terminal("x")>>,
                   <<NonTerminal("A"), Terminal("x")>>,
                   <<NonTerminal("B"), Terminal("x")>>,
                   <<NonTerminal("C"), Terminal("x")>>,
                   <<Terminal("x"), NonTerminal("B")>>,
                   <<NonTerminal("B"), NonTerminal("C")>>,
                   <<NonTerminal("C"), NonTerminal("B")>>,
                   <<AtomOptional(NonTerminal("B")), NonTerminal("A")>>}}

SecondRules ==
    {RuleOf(ProductionOf(atoms), ExprPath("self")) :
        atoms \in {<<NonTerminal("B")>>, <<Terminal("y"), NonTerminal("C")>>}}

\* the modules: two parsers of one or two rules, or three parsers of one
\* rule; a name can be declared twice, and a name can be left undeclared
ParserMods ==
    {<<Parser(n[1], r1), Parser(n[2], r2)>> :
        n \in {<<"A", "B">>, <<"A", "A">>},
        r1 \in {<<f>> : f \in FirstRules} \cup {<<f, g>> : f \in FirstRules, g \in SecondRules},
        r2 \in {<<f>> : f \in FirstRules} \cup {<<f, g>> : f \in FirstRules, g \in SecondRules}}
    \cup {<<Parser(n[1], <<f1>>), Parser(n[2], <<f2>>), Parser(n[3], <<f3>>)>> :
            n \in {<<"A", "B", "C">>, <<"A", "B", "A">>},
            f1 \in FirstRules, f2 \in FirstRules, f3 \in FirstRules}

InitCompile ==
    /\ input \in ParserMods
    /\ grammar = NoGrammar
    /\ state = LexerStateNew
    /\ env = EnvNew
    /\ hist = HistNew
    /\ last = NoOp
    /\ panicked = FALSE

\* self.check_missing_items(&mut ctx)
CheckMissingItems ==
    RecordCompile("check_missing_items", input, check_missing_items(input))

\* self.analyze_left_recursion(&mut ctx), reached when no item is missing
AnalyzeLeftRecursion(keys, order) ==
    /\ check_missing_items(input).st = "ok"
    /\ RecordCompile("analyze_left_recursion", input,
                     analyze_left_recursion(input, keys, order))

\* self.analyze_depends(&mut ctx), reached when no item is missing
AnalyzeDepends(keys) ==
    /\ check_missing_items(input).st = "ok"
    /\ RecordCompile("analyze_depends", input, analyze_depends(input, keys))

\* ParserMod::compile; the map and the sets of a context hash the same
\* names and are iterated in the same order
CompileParserMod(order) ==
    RecordCompile("compile", input, ParserMod_compile(input, order, order))

\* ParseIt::compile
CompileParseIt(order) ==
    RecordCompile("compile_parse_it", input, ParseIt_compile(input, order, order))

NextCompile ==
    \/ CheckMissingItems
    \/ \E keys \in Orders, order \in Orders : AnalyzeLeftRecursion(keys, order)
    \/ \E keys \in Orders : AnalyzeDepends(keys)
    \/ \E order \in Orders : CompileParserMod(order)
    \/ \E order \in Orders : CompileParseIt(order)

SpecCompile == InitCompile /\ [][NextCompile]_vars

----------------------------------------------------------------------------
(* Properties of the compile of a grammar module (SpecCompile).             *)

\* what a Middle says about dependencies: the dependency list of every
\* parser and its lowered rules, whose Call ops carry the handle lists
DependsIn(middle) ==
    [p \in 1..Len(middle.parsers) |->
        [depends |-> middle.parsers[p].depends, parser |-> middle.parsers[p].parser]]

\* C15: for a fixed grammar the order of every non-terminal's transitive
\* dependency list, and of the handle list at every Call site, is the same
\* whatever the iteration order of the hash maps and hash sets: it is the
\* same in every compilation that ends.
C15_DependencyOrderDeterministic ==
    /\ last.op = "analyze_depends" =>
          \A keys \in Orders : analyze_depends(input, keys) = last.val
    /\ (last.op = "compile" /\ last.st = "ok") =>
          \A order \in Orders :
              LET again == ParserMod_compile(input, order, order)
              IN  again.st = "ok" => DependsIn(again.val) = DependsIn(last.val.val)

\* a module of three parsers was compiled, one of them with two dependencies
C15_CompiledTwoDependencies ==
    /\ last.op = "compile" /\ last.st = "ok"
    /\ Cardinality(DeclaredNames(input)) = 3
    /\ \E p \in 1..Len(input) : Len(last.val.val.parsers[p].depends) = 2

\* the module declares a name twice
DeclaresTwice(parsers) ==
    \E i, j \in 1..Len(parsers) : i # j /\ parsers[i].name = parsers[j].name

\* C17: compiling a module that declares two non-terminals with the same
\* name fails with a compile error, and no Middle is produced.
C17_DuplicateNameRejected ==
    (last.op = "compile" /\ DeclaresTwice(input)) => last.st = "err"

\* the non-terminals an atom refers to
RECURSIVE RefsIn(_)
ProductionRefs(production) ==
    UNION {RefsIn(production.parts[i].part) : i \in 1..Len(production.parts)}

RefsIn(atom) ==
    IF atom.kind = "Terminal" THEN {}
    ELSE IF atom.kind = "NonTerminal" THEN {atom.name}
    ELSE IF atom.kind = "Sub" THEN ProductionRefs(atom.production)
    ELSE IF atom.kind = "Choice"
    THEN ProductionRefs(atom.first)
         \cup UNION {ProductionRefs(atom.rest[i]) : i \in 1..Len(atom.rest)}
    ELSE RefsIn(atom.atom)

\* the rules <<parser, rule>> that refer to a non-terminal not declared
UndeclaredRefs(parsers) ==
    {s \in {<<p, i>> : p \in 1..Len(parsers), i \in 1..2} :
        /\ s[2] <= Len(parsers[s[1]].rules)
        /\ ProductionRefs(parsers[s[1]].rules[s[2]].production)
              \ DeclaredNames(parsers) # {}}

\* C18: compiling a grammar in which some rule references a non-terminal
\* that is not declared returns a compile error located at such a
\* reference; the compiler neither panics nor loops, and no Middle is
\* produced.
C18_UndeclaredReferenceRejected ==
    (last.op \in {"compile", "compile_parse_it"} /\ UndeclaredRefs(input) # {})
    => /\ last.st = "err"
       /\ last.val.span \in UndeclaredRefs(input)

\* C18 for ParserMod::compile alone, on modules that declare no name twice
C18_ParserModRejectsUndeclared ==
    (last.op = "compile" /\ ~DeclaresTwice(input)) => C18_UndeclaredReferenceRejected

\* the non-terminals reached from n by 1..k left calls
RECURSIVE LeftReach(_, _, _)
LeftReach(left_calls_of, n, k) ==
    IF k = 0 THEN {}
    ELSE LET near == left_calls_of[n] \cap DOMAIN left_calls_of
         IN  near \cup UNION {LeftReach(left_calls_of, m, k - 1) : m \in near}

\* the non-terminals that lie on a directed cycle of the left-call graph
OnCycle(left_calls_of) ==
    {n \in DOMAIN left_calls_of :
        n \in LeftReach(left_calls_of, n, Cardinality(DOMAIN left_calls_of))}

\* C19: after analyze_left_recursion a non-terminal is in the
\* left-recursion set, and is compiled with MemoKind::LeftRec, if and only
\* if it lies on a directed cycle of the left-call graph; every other
\* non-terminal is compiled with MemoKind::Memorize.
C19_LeftRecursionIsOnCycle ==
    /\ (last.op = "analyze_left_recursion" /\ last.st = "ok") =>
          last.val.val = OnCycle(analyze_left_calls(input))
    /\ (last.op = "compile" /\ last.st = "ok") =>
          \A p \in 1..Len(input) :
              last.val.val.parsers[p].memo =
                  IF input[p].name \in OnCycle(analyze_left_calls(input))
                  THEN "LeftRec" ELSE "Memorize"

\* C19 for the modules whose left-call graph has no cycle but self loops
C19_SelfLoopsAreMarked ==
    LET left_calls_of == analyze_left_calls(input)
    IN  (\A n \in OnCycle(left_calls_of) : n \in left_calls_of[n] /\
            \A m \in left_calls_of[n] \cap OnCycle(left_calls_of) : m = n)
        => C19_LeftRecursionIsOnCycle

\* the direct dependencies of every declared name, read off the rules:
\* the non-terminals its rules refer to, the name itself left out; of two
\* parsers of one name ctx.direct_depends has the rules of the first
DirectRefs(parsers) ==
    [n \in DeclaredNames(parsers) |->
        LET rules == parsers[FirstNamed(parsers, n)].rules
        IN  UNION {ProductionRefs(rules[i].production) : i \in 1..Len(rules)} \ {n}]

\* the names of an ordered dependency list, and whether each is there once
DependsSet(depends) == {depends[i].name : i \in 1..Len(depends)}

EachOnce(depends) == \A i, j \in 1..Len(depends) : depends[i].name = depends[j].name => i = j

\* C22: for every non-terminal N the computed depends[N] holds exactly the
\* non-terminals reachable from N by one or more direct-dependency edges,
\* N itself removed, each of them once; the dependency list of a compiled
\* parser is that of its name.
C22_DependsIsClosure ==
    /\ (last.op = "analyze_depends" /\ last.st = "ok") =>
          \A n \in DeclaredNames(input) :
              /\ DependsSet(last.val.val[n])
                    = LeftReach(DirectRefs(input), n, Cardinality(DeclaredNames(input))) \ {n}
              /\ EachOnce(last.val.val[n])
    /\ (last.op = "compile" /\ last.st = "ok") =>
          \A p \in 1..Len(input) :
              /\ {last.val.val.parsers[p].depends[i] : i \in 1..Len(last.val.val.parsers[p].depends)}
                    = LeftReach(DirectRefs(input), input[p].name,
                                Cardinality(DeclaredNames(input))) \ {input[p].name}
              /\ Len(last.val.val.parsers[p].depends)
                    = Cardinality(LeftReach(DirectRefs(input), input[p].name,
                                            Cardinality(DeclaredNames(input))) \ {input[p].name})

\* depends was computed for a name that reaches itself through another
\* name and reaches a third name through a dependency alone
C22_ClosureBeyondDirect ==
    /\ last.op = "analyze_depends" /\ last.st = "ok"
    /\ \E n \in DeclaredNames(input) :
          /\ n \in LeftReach(DirectRefs(input), n, Cardinality(DeclaredNames(input)))
          /\ DependsSet(last.val.val[n]) \ DirectRefs(input)[n] # {}

\* the ParseOp::Call nodes of a lowered parser
RECURSIVE CallsOf(_)
CallsOf(p) ==
    CASE p.op = "Call" -> {p}
      [] p.op \in {"Then", "ThenIgnore", "IgnoreThen"} -> CallsOf(p.prev) \cup CallsOf(p.next)
      [] p.op \in {"Map", "Repeat", "Optional", "LookAhead", "LookAheadNot"} -> CallsOf(p.parser)
      [] p.op = "Choice" -> UNION {CallsOf(p.parsers[i]) : i \in 1..Len(p.parsers)}
      [] OTHER -> {}

\* the handles bound in parse_impl of a ParserImpl: `curr` and depends_decl
BoundIn(impl) == {impl.name} \cup {impl.depends[i] : i \in 1..Len(impl.depends)}

\* every Call in the body of impl names bound handles and passes them in
\* the order of the parameters of the parse_memo it calls
CallsBound(parsers, impl) ==
    \A c \in CallsOf(impl.parser.parser) :
        /\ c.parser \in BoundIn(impl)
        /\ \A i \in 1..Len(c.depends) : c.depends[i] \in BoundIn(impl)
        /\ \A q \in 1..Len(parsers) : parsers[q].name = c.parser => c.depends = parsers[q].depends

\* C29: for every Call to a non-terminal M emitted in the body of a
\* non-terminal N, M and every dependency handle passed at the Call is N
\* itself or a member of depends[N], and the handles are passed in the
\* order of the parameters of M's parse_memo.
C29_CallHandlesBound ==
    (last.op \in {"compile", "compile_parse_it"} /\ last.st = "ok") =>
        \A p \in 1..Len(last.val.val.parsers) :
            CallsBound(last.val.val.parsers, last.val.val.parsers[p])

\* C29 for the modules that declare every name once
C29_BoundWhenDeclaredOnce ==
    (/\ last.op \in {"compile", "compile_parse_it"} /\ last.st = "ok"
     /\ Cardinality(DeclaredNames(input)) = Len(input)) =>
        \A p \in 1..Len(last.val.val.parsers) :
            CallsBound(last.val.val.parsers, last.val.val.parsers[p])

\* a module declaring every name once compiled to a body that calls a
\* parser with a handle to the caller itself and a handle to a third parser
C29_CallPassesCallerAndThird ==
    /\ last.op = "compile" /\ last.st = "ok"
    /\ Cardinality(DeclaredNames(input)) = Len(input)
    /\ \E p \in 1..Len(last.val.val.parsers) :
          \E c \in CallsOf(last.val.val.parsers[p].parser.parser) :
              /\ c.parser # last.val.val.parsers[p].name
              /\ Len(c.depends) >= 2
              /\ \E i \in 1..Len(c.depends) : c.depends[i] = last.val.val.parsers[p].name

----------------------------------------------------------------------------
(* Specification SpecRun: a grammar module is compiled, the code of its     *)
(* parsers is emitted, and the code lowered from an atom or a production    *)
(* of the module is run on a new ParserState over a text.                   *)

\* Parsing::expand of a lowered ParseOp (parser/backend.rs): the ops nested
\* in it are expanded in place, a Map keeps its expression as the closure
\* body (the action "self" returns the capture, a literal returns itself)
RECURSIVE Expand(_)
Expand(p) ==
    CASE p.op = "Map" -> Map(Expand(p.parser), IF p.expr.kind = "path" THEN "self" ELSE "lit")
      [] p.op = "Call" -> Call(p.parser)
      [] p.op \in {"Then", "ThenIgnore", "IgnoreThen"} ->
           [op |-> p.op, prev |-> Expand(p.prev), next |-> Expand(p.next)]
      [] p.op = "Repeat" -> Repeat(Expand(p.parser), p.at_least)
      [] p.op \in {"Optional", "LookAhead", "LookAheadNot"} ->
           [op |-> p.op, parser |-> Expand(p.parser)]
      [] p.op = "Choice" -> Choice([i \in 1..Len(p.parsers) |-> Expand(p.parsers[i])])
      [] OTHER -> p

\* Middle::expand: one parser object per ParserImpl, with its parse_impl
\* and the memo function of its MemoKind
MiddleExpand(middle) ==
    [n \in {middle.parsers[i].name : i \in 1..Len(middle.parsers)} |->
        LET impl == middle.parsers[CHOOSE i \in 1..Len(middle.parsers) :
                                       middle.parsers[i].name = n]
        IN  [parser |-> Expand(impl.parser.parser), memo |-> impl.memo]]

\* the rules of B in the modules that are run
RunRules ==
    {<<RuleOf(ProductionOf(atoms), ExprPath("self"))>> :
        atoms \in {<<Terminal("x")>>,
                   <<AtomRepeat(Terminal("x"))>>,
                   <<AtomOptional(Terminal("x"))>>,
                   <<Terminal("x"), Terminal("y")>>,
                   <<AtomLookAhead(Terminal("x"))>>}}

\* the modules that are run:  A -> B 'y';  B -> one of RunRules
RunMods ==
    {<<Parser("A", <<RuleOf(ProductionOf(<<NonTerminal("B"), Terminal("y")>>), ExprLit("1"))>>),
       Parser("B", r)>> : r \in RunRules}

\* the texts that are parsed
RunTexts == SeqsUpTo({"x", "y"}, MaxLen - 1)

InitRun ==
    /\ input \in RunMods
    /\ grammar = NoGrammar
    /\ state = LexerStateNew
    /\ env = EnvNew
    /\ hist = HistNew
    /\ last = NoOp
    /\ panicked = FALSE

\* parse_it!: the module is compiled and the code of the Middle is emitted
ExpandModule(order) ==
    /\ grammar = NoGrammar
    /\ ParserMod_compile(input, order, order).st = "ok"
    /\ grammar' = MiddleExpand(ParserMod_compile(input, order, order).val)
    /\ last' = [op |-> "expand", impl |-> "codegen", arg |-> input, pre |-> state,
                st |-> "ok", val |-> VUnit, tried |-> 0]
    /\ UNCHANGED <<input, state, env, hist, panicked>>

\* The effect of running the lowered parsing r.parsing of `what` on a new
\* ParserState over text.
RecordRun(name, what, text, r) ==
    /\ state' = r.lb
    /\ env' = r.env
    /\ panicked' = (r.st = "panic")
    /\ last' = [op |-> name, impl |-> "backend", arg |-> [ast |-> what, text |-> text],
                pre |-> LexerStateNew, st |-> r.st, val |-> r.val, tried |-> 0]
    /\ UNCHANGED <<input, grammar, hist>>

\* the code lowered to r.parsing, when the lowering succeeded, run over text
RunLowered(name, what, text, r) ==
    /\ grammar # NoGrammar
    /\ r.st = "ok"
    /\ RecordRun(name, what, text,
                 Eval(grammar, text, Expand(r.parsing.parser), LexerStateNew, EnvNew))

\* the names in the order of their declarations
DeclOrder == <<"A", "B", "C">>

\* the code lowered from an atom of the module, run over text; the order of
\* the handles at a Call has no part in the code that is run
RunAtom(atom, text) ==
    RunLowered("atom", atom, text,
               Atom_compile(atom, analyze_depends(input, DeclOrder).val, 0))

\* the code lowered from a production of the module, run over text
RunProduction(production, text) ==
    RunLowered("production", production, text,
               Production_compile(production, analyze_depends(input, DeclOrder).val, 0))

NextRun ==
    \/ \E order \in Orders : ExpandModule(order)
    \/ \E atom \in AtomsUpTo(MaxAtomDepth), text \in RunTexts : RunAtom(atom, text)
    \/ \E production \in ProductionsOver(AtomsUpTo(0)), text \in RunTexts :
          RunProduction(production, text)

SpecRun == InitRun /\ [][NextRun]_vars

----------------------------------------------------------------------------
(* Properties of the generated parsers against the analyses (SpecRun).      *)

\* C21: an atom or a production whose must_progress() is true leaves the
\* cursor, after every successful match, at least one token beyond the
\* cursor the match started at.
C21_MustProgressConsumes ==
    /\ (last.op = "atom" /\ last.st = "ok" /\ Atom_must_progress(last.arg.ast))
          => CursorLt(last.pre, state)
    /\ (last.op = "production" /\ last.st = "ok" /\ Production_must_progress(last.arg.ast))
          => CursorLt(last.pre, state)

----------------------------------------------------------------------------
(* Specification SpecLeftRec: a left-recursive parser is called on a new    *)
(* ParserState over a text, once with a new memo and once more with the     *)
(* memo the first call left; the parser is the generated one (memo.rs) or   *)
(* the combinator of primitive.rs.                                          *)

\* P -> P 'b' | !P 'a': the second rule matches until memo[p] holds a value
GrammarNot ==
    [n \in {"P"} |->
        [parser |-> Choice(<<Rule(ThenIgnore(Call("P"), JustChar("b")), "push"),
                             Rule(IgnoreThen(LookAheadNot(Call("P")), JustChar("a")), "a")>>),
         memo |-> "LeftRec"]]

\* the grammars with a left-recursive parser; those a combinator tree can
\* be built for (there is no look-ahead combinator)
LeftRecGrammars == {GrammarP, GrammarAB, GrammarNot}

CombinatorGrammars == {GrammarP, GrammarAB}

LeftRecTexts(G) ==
    IF G = GrammarAB THEN SeqsUpTo({"a", "x", "y"}, MaxLen) ELSE SeqsUpTo({"a", "b"}, MaxLen)

InitLeftRec ==
    /\ grammar \in LeftRecGrammars
    /\ input \in LeftRecTexts(grammar)
    /\ state = LexerStateNew
    /\ env = EnvNew
    /\ hist = HistNew
    /\ last = NoOp
    /\ panicked = FALSE

\* The effect of a call of the parser of N with result r on a new
\* ParserState over input.
RecordLeftRec(impl, N, r) ==
    /\ state' = r.lb
    /\ env' = r.env
    /\ panicked' = (r.st = "panic")
    /\ last' = [op |-> "left_rec", impl |-> impl, arg |-> N, pre |-> LexerStateNew,
                st |-> r.st, val |-> r.val, tried |-> hist.calls]
    /\ hist' = [hist EXCEPT !.calls = @ + 1]
    /\ UNCHANGED <<input, grammar>>

\* left_rec(state, &self.memo, |state| self.parse_impl(state, ..)) of the
\* generated parser of N
LeftRecCall(N) ==
    /\ ~panicked
    /\ hist.calls < 2
    /\ hist.calls = 1 => last.impl = "backend" /\ last.arg = N
    /\ grammar[N].memo = "LeftRec"
    /\ RecordLeftRec("backend", N, Eval(grammar, input, Call(N), LexerStateNew, env))

\* LeftRec::parse of the combinator of N
LeftRecCombinator(N) ==
    /\ ~panicked
    /\ hist.calls < 2
    /\ hist.calls = 1 => last.impl = "combinator" /\ last.arg = N
    /\ grammar \in CombinatorGrammars
    /\ grammar[N].memo = "LeftRec"
    /\ RecordLeftRec("combinator", N, Parse(grammar, input, Call(N), LexerStateNew, env))

NextLeftRec ==
    \/ \E N \in DOMAIN grammar : LeftRecCall(N)
    \/ \E N \in DOMAIN grammar : LeftRecCombinator(N)

SpecLeftRec == InitLeftRec /\ [][NextLeftRec]_vars

----------------------------------------------------------------------------
(* Properties of the left-recursion implementations (SpecLeftRec).          *)

\* C23: when a call of left_rec or of LeftRec::parse that missed the memo
\* at the start cursor p returns, the cursor of the state is the end stored
\* in memo[p], and it returns Ok(v) exactly when memo[p] holds Some(v), Err
\* when it holds None.
C23_LeftRecReturnsMemoEntry ==
    (last.op = "left_rec" /\ last.tried = 0 /\ last.st # "panic") =>
        /\ MemoHas(env.memo[last.arg], last.pre)
        /\ state = env.memo[last.arg][last.pre].end
        /\ (last.st = "ok") = (env.memo[last.arg][last.pre].value # VNone)
        /\ last.st = "ok" => last.val = env.memo[last.arg][last.pre].value.some

\* C23 for left_rec of memo.rs alone
C23_MemoLeftRecReturnsMemoEntry ==
    last.impl = "backend" => C23_LeftRecReturnsMemoEntry


\* the ends written at one cursor never lie before it; those of a
\* left_rec memo increase strictly from one to the next
EndsFrom(pos, ends, strictly) ==
    /\ \A i \in 1..Len(ends) : CursorLe(pos, ends[i])
    /\ strictly => \A i \in 1..(Len(ends) - 1) : CursorLt(ends[i], ends[i + 1])

\* C28: every memo entry pos -> (value, end) ever written by memorize or
\* by left_rec has end >= pos, the ends left_rec writes for one pos increase
\* strictly from one update to the next, and the advance of a memo hit
\* does not panic with "you cannot rewind".
C28_MemoEndsNeverRewind ==
    (last.op = "left_rec" /\ last.impl = "backend") =>
        /\ \A N \in DOMAIN grammar : \A pos \in DOMAIN env.memo[N] :
              EndsFrom(pos, env.memo[N][pos].ends, grammar[N].memo = "LeftRec")
        /\ last.st # "panic"

\* the second call hit the entry that the first call left after it had
\* written three ends at the start cursor, and advanced beyond the start
C28_HitAfterGrowth ==
    /\ last.op = "left_rec" /\ last.impl = "backend" /\ last.tried = 1
    /\ last.st = "ok"
    /\ Len(env.memo[last.arg][last.pre].ends) >= 3
    /\ CursorLt(last.pre, state)
    /\ \E N \in DOMAIN grammar : grammar[N].memo = "Memorize" /\ DOMAIN env.memo[N] # {}

----------------------------------------------------------------------------
(* Specification SpecLower: one production of a rule is lowered, whole and  *)
(* its first atom alone; every non-terminal is declared and has no          *)
(* dependencies.                                                            *)

\* ctx.depends of a module whose parsers refer to no other parser
NoDepends == [n \in NonTerminals |-> <<>>]

\* input is a production: an atom, alone or followed by a terminal or by a
\* non-terminal
InitLower ==
    /\ input \in {Production(<<Part(NotSpecified, a)>>) : a \in AtomsUpTo(MaxAtomDepth)}
            \cup {Production(<<Part(NotSpecified, a), Part(NotSpecified, b)>>) :
                     a \in AtomsUpTo(MaxAtomDepth), b \in AtomsUpTo(0)}
    /\ grammar = NoGrammar
    /\ state = LexerStateNew
    /\ env = EnvNew
    /\ hist = HistNew
    /\ last = NoOp
    /\ panicked = FALSE

\* self.production.compile(ctx, span)
LowerProduction ==
    RecordCompile("production_compile", input, Production_compile(input, NoDepends, CallSite))

\* part.part.compile(ctx, span) of the first part
LowerAtom ==
    RecordCompile("atom_compile", input.parts[1].part,
                  Atom_compile(input.parts[1].part, NoDepends, CallSite))

NextLower ==
    \/ LowerProduction
    \/ LowerAtom

SpecLower == InitLower /\ [][NextLower]_vars

----------------------------------------------------------------------------
(* Properties of the lowering of productions and atoms (SpecLower).         *)

\* every Tuple inside a capture has two loud components
RECURSIVE TuplesOfLoud(_)
TuplesOfLoud(c) ==
    IF c.kind = "Tuple"
    THEN is_loud(c.fst) /\ is_loud(c.snd) /\ TuplesOfLoud(c.fst) /\ TuplesOfLoud(c.snd)
    ELSE IF c.kind = "Named" THEN TuplesOfLoud(c.cap)
    ELSE TRUE

\* the capture of a sequence of two parsings of which one is loud and the
\* other silent is the capture of the loud one
LoudSideKept(first, second, result) ==
    /\ (is_loud(first.capture) /\ ~is_loud(second.capture)) => result.capture = first.capture
    /\ (~is_loud(first.capture) /\ is_loud(second.capture)) => result.capture = second.capture

\* C24: every Tuple capture produced by lowering has two loud components:
\* Parsing::then produces a Tuple only when both sides are loud, and the
\* sequence of a loud and a silent side has the capture of the loud side.
C24_TuplesHoldLoudCaptures ==
    /\ (last.op \in {"production_compile", "atom_compile"} /\ last.st = "ok") =>
          TuplesOfLoud(last.val.parsing.capture)
    /\ (last.op = "production_compile" /\ last.st = "ok" /\ Len(last.arg.parts) = 2) =>
          LoudSideKept(Part_compile(last.arg.parts[1], NoDepends, CallSite).parsing,
                       Part_compile(last.arg.parts[2], NoDepends, CallSite).parsing,
                       last.val.parsing)

\* C24, the sequence of a loud and a silent side alone
C24_LoudSideKept ==
    (last.op = "production_compile" /\ last.st = "ok" /\ Len(last.arg.parts) = 2) =>
        LoudSideKept(Part_compile(last.arg.parts[1], NoDepends, CallSite).parsing,
                     Part_compile(last.arg.parts[2], NoDepends, CallSite).parsing,
                     last.val.parsing)

\* the alternatives of a Choice atom, and whether none of them has a loud
\* part
SilentChoice(atom) ==
    /\ atom.kind = "Choice"
    /\ \A i \in 1..Len(ProductionsIn(atom)) :
          \A j \in 1..Len(ProductionsIn(atom)[i].parts) :
              Part_compile(ProductionsIn(atom)[i].parts[j], NoDepends, CallSite).st = "ok"
              /\ ~is_loud(Part_compile(ProductionsIn(atom)[i].parts[j], NoDepends, CallSite).parsing.capture)

\* C30: a Choice atom all of whose alternatives contain no loud part, as
\* ['x' 'x' | 'x'] with alternatives of different lengths, compiles without
\* a capture-mismatch error, and its capture is not loud.
C30_SilentChoiceCompiles ==
    (last.op = "atom_compile" /\ SilentChoice(last.arg)) =>
        /\ last.st = "ok"
        /\ ~is_loud(last.val.parsing.capture)

\* C30 for the alternatives of one length
C30_SameLengthSilentChoiceCompiles ==
    (last.op = "atom_compile" /\ SilentChoice(last.arg)
        /\ \A i \in 1..Len(ProductionsIn(last.arg)) :
              Len(ProductionsIn(last.arg)[i].parts) = Len(last.arg.first.parts)) =>
        /\ last.st = "ok"
        /\ ~is_loud(last.val.parsing.capture)

----------------------------------------------------------------------------
(* Properties of the capture of a pattern terminal (SpecCapture).           *)

\* the capture of the PatTerminal of a pattern that binds x
PatCapture == just_pat([accept |-> {"a"}, binds |-> <<"x">>]).capture

\* C25: capture unification treats the capture of a PatTerminal (TupleVec)
\* as Loud: unify(TupleVec, c) and unify(c, TupleVec) succeed with Loud for
\* every capture c, another TupleVec included.
C25_TupleVecUnifiesAsLoud ==
    (last.op = "unify" /\ (last.arg[1] = PatCapture \/ last.arg[2] = PatCapture)) =>
        /\ last.st = "ok"
        /\ last.val.cap = Loud

\* C25 when the other capture is Loud
C25_TupleVecWithLoud ==
    (last.op = "unify" /\ (last.arg[1] = PatCapture \/ last.arg[2] = PatCapture)
        /\ Loud \in {last.arg[1], last.arg[2]}) =>
        /\ last.st = "ok"
        /\ last.val.cap = Loud

----------------------------------------------------------------------------
(* Properties of analyze_left_recursion (SpecCompile).                      *)

\* C26: analyze_left_recursion terminates for every finite left-call
\* graph, those with a cycle of two or more distinct non-terminals and no
\* self-loop included; so does the compile that calls it.
C26_LeftRecursionAnalysisEnds ==
    last.op \in {"analyze_left_recursion", "compile", "compile_parse_it"} => last.st # "loops"

\* C26 for the modules no non-terminal of which is on a cycle of the
\* left-call graph without having a left call to itself
C26_EndsWithSelfLoops ==
    (\A n \in OnCycle(analyze_left_calls(input)) : n \in analyze_left_calls(input)[n])
        => C26_LeftRecursionAnalysisEnds

\* the left-call graph without the non-terminals of a set
Unmarked(left_calls_of, marked) ==
    [n \in DOMAIN left_calls_of \ marked |-> left_calls_of[n] \ marked]

\* C27: whenever analyze_left_recursion returns, every directed cycle of
\* the left-call graph, self-loops included, contains a non-terminal of the
\* left-recursion set: no cycle is left among the others; the parsers
\* compiled with MemoKind::LeftRec are such a set too.
C27_LeftRecursionIsFeedbackSet ==
    /\ (last.op = "analyze_left_recursion" /\ last.st = "ok") =>
          OnCycle(Unmarked(analyze_left_calls(input), last.val.val)) = {}
    /\ (last.op = "compile" /\ last.st = "ok") =>
          OnCycle(Unmarked(analyze_left_calls(input),
                           {input[p].name : p \in {q \in 1..Len(input) :
                               last.val.val.parsers[q].memo = "LeftRec"}})) = {}

\* the analysis returned for a graph with a cycle through two
\* non-terminals, and marked one of them alone
C27_CycleOfTwoCut ==
    /\ last.op = "analyze_left_recursion" /\ last.st = "ok"
    /\ \E n, m \in DOMAIN analyze_left_calls(input) :
          /\ n # m
          /\ m \in analyze_left_calls(input)[n]
          /\ n \in analyze_left_calls(input)[m]
          /\ n \in last.val.val /\ m \notin last.val.val

====
